---------------------------- MODULE Spec2Model ----------------------------
(* Verification model of the listing store, the manual-link operations    *)
(* (lib/services/similarity/enhancedSimilarityScorer.js), version         *)
(* detection (lib/services/versioning/versionDetector.js), persistence    *)
(* (lib/services/storage/listingsStorage.js) and the run pipeline         *)
(* (lib/FredyPipelineExecutioner.js).                                     *)
EXTENDS Integers, Sequences, FiniteSets, TLC

VARIABLES
  listings,   \* table "listings": sequence of rows, a row's id is its index
  links,      \* table "manual_property_links": set of <<listing_id, linked_listing_id>>
  res,        \* result and arguments of the last manual-link call
  nops,       \* number of manual-link calls made so far
  now,        \* Date.now()
  runs,       \* number of runs started so far
  pc,         \* the run: "idle", the stage whose handler runs next, "rejected", "done", "threw"
  job,        \* the run: this._jobKey
  provider,   \* the run: this._providerId
  batch,      \* the run: the listing array handed from stage to stage
  trace,      \* the run: the stages entered so far, in order
  err,        \* the run: name of the error thrown and the place that threw it
  handled,    \* the run: number of calls of _handleError
  level,      \* the run: log level _handleError used, "none" before it ran
  outcome,    \* the run: "none", "notified", "noNew", "failed" or "threw"
  soft,       \* the run: what the per-item stages were given and what happened per item
  found,      \* the run: the listings and known hashes _findNew compared
  stored,     \* the run: the rows before and after the storeListings call
  arg,        \* the argument of the function a function specification calls
  ret         \* what that function returned

storeVars == <<listings, links>>
linkVars == <<res, nops>>
runVars == <<now, runs, pc, job, provider, batch, trace, err, handled, level, outcome, soft,
            found, stored>>
auxVars == <<arg, ret>>
vars == <<listings, links, res, nops, now, runs, pc, job, provider, batch, trace, err,
          handled, level, outcome, soft, found, stored, arg, ret>>

(* ---------------------------------------------------------------------- *)
(* Bounds                                                                 *)
(* ---------------------------------------------------------------------- *)
NumListings == 3      \* listings in the store of the manual-link specification
MaxPub == 1           \* published_at values 1..MaxPub (0 is NULL)
MaxOps == 3           \* manual-link calls per behaviour

(* ---------------------------------------------------------------------- *)
(* Values                                                                 *)
(* ---------------------------------------------------------------------- *)
Null == 0
NaN == -1

(* hash tokens, disjoint from row ids *)
HashOf(h) == 100 + h

(* Number(id) of a stored id.  Ids are nanoid() strings, which do not     *)
(* parse as numbers.                                                      *)
NumberOf(id) == NaN

(* a <= b on JS numbers: false as soon as one side is NaN *)
NumLeq(x, y) == x # NaN /\ y # NaN /\ x <= y

(* published_at || created_at || 0 *)
DateOf(r) == IF r.pub # Null THEN r.pub ELSE IF r.created # Null THEN r.created ELSE 0

Ids(L) == DOMAIN L

(* ---------------------------------------------------------------------- *)
(* Version graph                                                          *)
(* ---------------------------------------------------------------------- *)

(* the ids findChainHead pushes on toVisit while it visits cur *)
Neighbours(L, K, cur) ==
  (IF cur \in Ids(L) /\ L[cur].prev # Null THEN {L[cur].prev} ELSE {})
    \cup (IF cur \in Ids(L) THEN {i \in Ids(L) : L[i].prev = cur} ELSE {})
    \cup (IF cur \in Ids(L)
            THEN {k[2] : k \in {x \in K : x[1] = cur}} \cup {k[1] : k \in {x \in K : x[2] = cur}}
            ELSE {})

RECURSIVE Bfs(_, _, _, _, _)
Bfs(L, K, toVisit, visited, excludeId) ==
  IF toVisit = {} THEN visited
  ELSE LET cur == CHOOSE c \in toVisit : TRUE
           rest == toVisit \ {cur}
       IN IF cur \in visited \/ cur = excludeId
            THEN Bfs(L, K, rest, visited, excludeId)
            ELSE Bfs(L, K,
                     rest \cup {n \in Neighbours(L, K, cur) : n \notin visited /\ n # excludeId},
                     visited \cup {cur}, excludeId)

(* findChainHead: the ids collected by the traversal, restricted to rows *)
AllInChain(L, K, startingId) == Bfs(L, K, {startingId}, {}, Null) \cap Ids(L)

(* findChainHead: the rows the head loop can return.  The loop keeps the  *)
(* first row of the query result with the maximal date; the query has no  *)
(* ORDER BY, so any row with the maximal date can be that first one.      *)
ChainHeads(L, C) == {h \in C : \A o \in C : DateOf(L[o]) <= DateOf(L[h])}

getChainIdsExcluding(L, K, startingId, excludeId) == Bfs(L, K, {startingId}, {}, excludeId)

(* getListingByIdOrHash: row id, or Null *)
Matching(L, idOrHash) == {i \in Ids(L) : i = idOrHash \/ L[i].hash = idOrHash}
getListingByIdOrHash(L, idOrHash) ==
  IF Matching(L, idOrHash) = {} THEN Null
  ELSE CHOOSE i \in Matching(L, idOrHash) : \A j \in Matching(L, idOrHash) : i <= j

(* canonical order of a pair of rows, as <<first, second>> *)
CanonicalPair(id1, id2) ==
  IF NumLeq(NumberOf(id1), NumberOf(id2)) THEN <<id1, id2>> ELSE <<id2, id1>>

markListingAsSuperseded(L, id) ==
  IF id = Null THEN L ELSE [L EXCEPT ![id].sup = TRUE]

(* createManualLink lines 746-755: supersede every member but the head *)
NormaliseChain(L, C, head) ==
  [i \in Ids(L) |-> IF i \in C THEN [L[i] EXCEPT !.sup = (i # head)] ELSE L[i]]

(* ---------------------------------------------------------------------- *)
(* Price history: change_set.priceHistory, a sequence of {date, price}    *)
(* ---------------------------------------------------------------------- *)
HasDate(h, d) == \E i \in DOMAIN h : h[i].date = d

(* priceHistory.find((e) => e.date === d) and push if there is none *)
PushIfAbsent(h, d, p) == IF HasDate(h, d) THEN h ELSE Append(h, [date |-> d, price |-> p])

(* e put behind the last entry of the sorted h that is not later than e *)
RECURSIVE InsertByDate(_, _)
InsertByDate(h, e) ==
  IF h = << >> THEN <<e>>
  ELSE IF h[Len(h)].date <= e.date
       THEN Append(h, e)
       ELSE Append(InsertByDate(SubSeq(h, 1, Len(h) - 1), e), h[Len(h)])

(* priceHistory.sort((a, b) => a.date - b.date): a stable sort *)
RECURSIVE SortByDate(_)
SortByDate(h) ==
  IF h = << >> THEN << >>
  ELSE InsertByDate(SortByDate(SubSeq(h, 1, Len(h) - 1)), h[Len(h)])

(* updatePriceHistory(newerListing, olderListing), newerListing being the *)
(* row newerId as it was read (change_set = changeSet) and olderListing   *)
(* the row olderId                                                        *)
updatePriceHistory(L, newerId, changeSet, olderId) ==
  LET h1 == IF DateOf(L[olderId]) # Null /\ L[olderId].price # Null
            THEN PushIfAbsent(changeSet, DateOf(L[olderId]), L[olderId].price)
            ELSE changeSet
      h2 == IF DateOf(L[newerId]) # Null /\ L[newerId].price # Null
            THEN PushIfAbsent(h1, DateOf(L[newerId]), L[newerId].price)
            ELSE h1
  IN [L EXCEPT ![newerId].hist = SortByDate(h2)]

(* createManualLink lines 757-771: every call of the loop gets the same   *)
(* freshHead, read before the loop, and overwrites change_set: the row    *)
(* keeps what the call for the last other member of allInChain wrote.     *)
(* The query of allInChain has no ORDER BY, so any member can be last.    *)
UpdateHeadHistory(L, C, head) ==
  IF C \ {head} = {}
  THEN {L}
  ELSE {updatePriceHistory(L, head, L[head].hist, last) : last \in C \ {head}}

(* ---------------------------------------------------------------------- *)
(* Manual-link operations                                                 *)
(* ---------------------------------------------------------------------- *)
NoRes ==
  [op |-> "none", l1 |-> Null, l2 |-> Null, success |-> FALSE, changed |-> FALSE,
   error |-> "none"]

(* a returned object without an error property *)
Result(op, l1, l2, success, changed) ==
  [op |-> op, l1 |-> l1, l2 |-> l2, success |-> success, changed |-> changed,
   error |-> "none"]

(* a returned { success: false, error } *)
Failure(op, l1, l2, error) == [Result(op, l1, l2, FALSE, FALSE) EXCEPT !.error = error]

(* createManualLink on store (L, K): the set of <<L', K', result>> it can *)
(* leave (one per row the head loop can pick)                             *)
createManualLink(L, K, listingId, linkedListingId) ==
  LET l1 == getListingByIdOrHash(L, listingId)
      l2 == getListingByIdOrHash(L, linkedListingId)
  IN
  IF listingId = linkedListingId
  THEN {<<L, K, Failure("create", l1, l2, "Cannot link a listing to itself")>>}
  ELSE
  IF l1 = Null \/ l2 = Null
  THEN {<<L, K, Failure("create", l1, l2, "One or both listings not found")>>}
  ELSE
  LET pair == CanonicalPair(l1, l2) IN
  IF pair \in K
  THEN {<<L, K, Result("create", l1, l2, TRUE, FALSE)>>}
  ELSE
  LET K1 == K \cup {pair}
      date1 == DateOf(L[l1])
      date2 == DateOf(L[l2])
      newerOfPair == IF date1 >= date2 THEN l1 ELSE l2
      olderOfPair == IF date1 >= date2 THEN l2 ELSE l1
      L1 == IF L[newerOfPair].prev = Null
              THEN [L EXCEPT ![newerOfPair].prev = olderOfPair]
              ELSE L
      chain == AllInChain(L1, K1, l1)
  IN UNION {{<<L2, K1, Result("create", l1, l2, TRUE, TRUE)>> :
               L2 \in UpdateHeadHistory(NormaliseChain(L1, chain, head), chain, head)} :
            head \in ChainHeads(L1, chain)}

(* the rows removeManualLink leaves once a link has been deleted *)
AfterUnlink(L, K, id1, id2) ==
  LET prevId2 == L[id2].prev
      L1 == IF prevId2 # Null /\ prevId2 \in getChainIdsExcluding(L, K, id1, id2)
              THEN [L EXCEPT ![id2].prev = Null]
              ELSE L
  IN [L1 EXCEPT ![id2].sup = FALSE]

(* removeManualLink on store (L, K): the set of <<L', K', result>> it can *)
(* leave (one per link the search for an indirect connection can meet     *)
(* first; that query has no ORDER BY)                                     *)
removeManualLink(L, K, listingId, linkedListingId) ==
  LET l1 == getListingByIdOrHash(L, listingId)
      l2 == getListingByIdOrHash(L, linkedListingId)
  IN
  IF l1 = Null \/ l2 = Null
  THEN {<<L, K, Result("remove", l1, l2, FALSE, FALSE)>>}
  ELSE
  LET pair == CanonicalPair(l1, l2) IN
  IF pair \in K
  THEN {<<AfterUnlink(L, K \ {pair}, l1, l2), K \ {pair}, Result("remove", l1, l2, TRUE, TRUE)>>}
  ELSE
  LET chain1Ids == getChainIdsExcluding(L, K, l1, l2)
      connecting == {k \in K :
                       /\ (k[1] = l2 \/ k[2] = l2)
                       /\ (IF k[1] = l2 THEN k[2] ELSE k[1]) \in chain1Ids}
  IN IF connecting = {}
     THEN {<<L, K, Result("remove", l1, l2, TRUE, FALSE)>>}
     ELSE {<<AfterUnlink(L, K \ {k}, l1, l2), K \ {k}, Result("remove", l1, l2, TRUE, TRUE)>> :
             k \in connecting}

(* ---------------------------------------------------------------------- *)
(* Listings in flight and their identities                                *)
(* ---------------------------------------------------------------------- *)
(* An address as written is a sequence of words separated by blanks.  Of *)
(* a word the model has its letters and digits in lower case, whether it  *)
(* is written with a capital, the street designation at its end as        *)
(* written ("str.", "straße", "strasse" or "") and whether a comma        *)
(* follows it.  The empty sequence is a listing without address.          *)
Word(text, caps, street, comma) ==
  [text |-> text, caps |-> caps, street |-> street, comma |-> comma]

(* "Musterstr. 12, 10115 Berlin" *)
MusterstrFull ==
  <<Word("muster", TRUE, "str.", FALSE), Word("12", FALSE, "", TRUE),
    Word("10115", FALSE, "", FALSE), Word("berlin", TRUE, "", FALSE)>>

(* "Musterstraße 12, 10115 Berlin" *)
MusterstrasseFull ==
  <<Word("muster", TRUE, "straße", FALSE), Word("12", FALSE, "", TRUE),
    Word("10115", FALSE, "", FALSE), Word("berlin", TRUE, "", FALSE)>>

(* "Musterstraße 12" *)
MusterstrasseShort ==
  <<Word("muster", TRUE, "straße", FALSE), Word("12", FALSE, "", FALSE)>>

(* "Musterstr. 12" *)
MusterstrShort ==
  <<Word("muster", TRUE, "str.", FALSE), Word("12", FALSE, "", FALSE)>>

(* toLowerCase, str. and straße to strasse, punctuation removed: what is  *)
(* left of a word is its text and its street designation                  *)
normalizeWord(w) ==
  <<w.text, IF w.street \in {"str.", "straße"} THEN "strasse" ELSE w.street>>

normalizeAddress(address) == [i \in DOMAIN address |-> normalizeWord(address[i])]

(* the null computePropertyIdentity returns *)
NoPropertyIdentity == << >>

(* A fetched listing: the provider's id, whether it has an address, and   *)
(* how many of the identity factors zip code, house number, size and      *)
(* price its data gives.  The listings of the runs are those of one       *)
(* property, so two of them differ in which factors they have, never in   *)
(* the address or the size.                                               *)
PriceOf(rid) == 1000 + 50 * rid

RawListing(rid, addr, nfac, pub) ==
  [rid |-> rid, hash |-> Null, addr |-> addr, nfac |-> nfac, pub |-> pub,
   address |-> IF addr THEN MusterstrFull ELSE << >>, size |-> 70,
   price |-> PriceOf(rid), hist |-> << >>,
   lat |-> Null, rooms |-> Null, med |-> Null, dist |-> Null,
   fuzzy |-> Null, pid |-> NoPropertyIdentity, prev |-> Null, bprev |-> Null]

(* provider normalize: id = buildHash(o.id, o.price) *)
normalize(o) == [o EXCEPT !.hash = HashOf(o.rid)]

(* the parts array of computeFuzzyIdentity and the hash of its sorted     *)
(* join: equal for two listings iff they have the same parts              *)
FuzzyParts(it) ==
  it.nfac + (IF it.lat # Null THEN 1 ELSE 0) + (IF it.rooms # Null THEN 1 ELSE 0)

computeFuzzyIdentity(it) ==
  IF FuzzyParts(it) < 4
  THEN Null
  ELSE 100 * it.nfac + 10 * (IF it.lat # Null THEN 1 ELSE 0) + (IF it.rooms # Null THEN 1 ELSE 0)

(* sha256 of `${normalizedAddress}|${sizeStr}`: equal for two listings    *)
(* iff normalized address and size are equal; null without an address     *)
computePropertyIdentity(it) ==
  IF it.address = << >> \/ normalizeAddress(it.address) = << >>
  THEN NoPropertyIdentity
  ELSE <<normalizeAddress(it.address), it.size>>

(* ---------------------------------------------------------------------- *)
(* listingsStorage.js and listingsExtendedStorage.js                      *)
(* ---------------------------------------------------------------------- *)
RowsOfJob(L, jobId) == {i \in Ids(L) : L[i].job = jobId}

(* the query with AND manually_deleted = 0 *)
KnownHashesNotDeleted(L, jobId, providerId) ==
  {L[i].hash : i \in {r \in RowsOfJob(L, jobId) : L[r].provider = providerId /\ ~L[r].deleted}}

getKnownListingHashesForJobAndProvider(L, jobId, providerId) ==
  {L[i].hash : i \in {r \in RowsOfJob(L, jobId) : L[r].provider = providerId}}

(* ORDER BY created_at DESC, first row: any row of S no other row of S is newer than *)
NewestRows(L, S) == {i \in S : \A o \in S : L[o].created <= L[i].created}

findListingByPropertyIdentity(L, jobId, propertyIdentity, excludeHash) ==
  IF propertyIdentity = NoPropertyIdentity
  THEN {Null}
  ELSE LET S == {i \in RowsOfJob(L, jobId) :
                   L[i].pid = propertyIdentity /\ L[i].hash # excludeHash}
       IN IF S = {} THEN {Null} ELSE NewestRows(L, S)

(* WHERE job_id = ? AND fuzzy_identity IN (...) AND manually_deleted = 0 *)
FuzzyRows(L, jobId, f) == {i \in RowsOfJob(L, jobId) : L[i].fuzzy = f /\ ~L[i].deleted}

findAnyByFuzzyIdentities(L, jobId, F) ==
  LET D == {f \in F : FuzzyRows(L, jobId, f) # {}}
  IN {m \in [D -> Ids(L)] : \A f \in D : m[f] \in FuzzyRows(L, jobId, f)}

(* the possible result maps: identity -> id of a newest row with it *)
findListingsByFuzzyIdentities(L, jobId, F) ==
  LET D == {f \in F : FuzzyRows(L, jobId, f) # {}}
  IN {m \in [D -> Ids(L)] : \A f \in D : m[f] \in NewestRows(L, FuzzyRows(L, jobId, f))}

HasHash(L, jobId, h) == \E i \in RowsOfJob(L, jobId) : L[i].hash = h

IdOfHash(L, jobId, h) ==
  IF HasHash(L, jobId, h) THEN CHOOSE i \in RowsOfJob(L, jobId) : L[i].hash = h ELSE Null

NewRow(jobId, providerId, item, t) ==
  [hash |-> item.hash, job |-> jobId, provider |-> providerId, pub |-> item.pub,
   created |-> t, prev |-> item.prev, sup |-> FALSE, fuzzy |-> item.fuzzy,
   pid |-> item.pid, lat |-> item.lat, dist |-> Null, deleted |-> FALSE,
   price |-> item.price, hist |-> item.hist]

InsertRowAlways(L, row) == Append(L, row)

(* INSERT ... ON CONFLICT(job_id, hash) DO NOTHING *)
InsertRow(L, row) == IF HasHash(L, row.job, row.hash) THEN L ELSE Append(L, row)

RECURSIVE storeListings(_, _, _, _, _)
storeListings(L, jobId, providerId, B, t) ==
  IF B = << >>
  THEN L
  ELSE storeListings(InsertRow(L, NewRow(jobId, providerId, Head(B), t)),
                     jobId, providerId, Tail(B), t)

(* one listing of withBatchChain; the id map was read before the updates *)
ResolveOne(L, cur, prevId) ==
  IF cur # Null /\ prevId # Null
  THEN LET L1 == [L EXCEPT ![cur].prev = prevId] IN [L1 EXCEPT ![prevId].sup = TRUE]
  ELSE L

RECURSIVE ResolveFrom(_, _, _, _)
ResolveFrom(L, L0, jobId, B) ==
  IF B = << >>
  THEN L
  ELSE ResolveFrom(ResolveOne(L, IdOfHash(L0, jobId, Head(B).hash),
                                 IdOfHash(L0, jobId, Head(B).bprev)),
                   L0, jobId, Tail(B))

resolveBatchVersionChains(L, jobId, B) ==
  ResolveFrom(L, L, jobId, SelectSeq(B, LAMBDA it : it.bprev # Null))

markAllVersionsOfAnyJob(L, jobId, fuzzyIdentity, excludeHash) ==
  IF fuzzyIdentity = Null
  THEN L
  ELSE [i \in Ids(L) |->
          IF L[i].fuzzy = fuzzyIdentity /\ L[i].hash # excludeHash
          THEN [L[i] EXCEPT !.sup = TRUE]
          ELSE L[i]]

markAllVersionsAsSuperseded(L, jobId, fuzzyIdentity, excludeHash) ==
  IF fuzzyIdentity = Null
  THEN L
  ELSE [i \in Ids(L) |->
          IF L[i].job = jobId /\ L[i].fuzzy = fuzzyIdentity /\ L[i].hash # excludeHash
          THEN [L[i] EXCEPT !.sup = TRUE]
          ELSE L[i]]

(* UPDATE listings SET manually_deleted = 1 WHERE id IN (...) *)
deleteListingsById(L, ids) ==
  [i \in Ids(L) |-> IF i \in ids THEN [L[i] EXCEPT !.deleted = TRUE] ELSE L[i]]

updateListingDistance(L, id, distance) ==
  [i \in Ids(L) |-> IF i = id THEN [L[i] EXCEPT !.dist = distance] ELSE L[i]]

(* ---------------------------------------------------------------------- *)
(* versionDetector.js                                                     *)
(* ---------------------------------------------------------------------- *)
RECURSIVE Ascending(_)
Ascending(S) ==
  IF S = {}
  THEN << >>
  ELSE LET m == CHOOSE x \in S : \A y \in S : x <= y
       IN <<m>> \o Ascending(S \ {m})

SortAsFetched(B, idx) == idx

(* groupListings.sort((a, b) => (b.publishedAt || 0) - (a.publishedAt || 0)) *)
(* on a sequence of batch positions: stable, newest first                 *)
RECURSIVE SortNewestFirst(_, _)
SortNewestFirst(B, idx) ==
  IF idx = << >>
  THEN << >>
  ELSE LET k == CHOOSE c \in DOMAIN idx :
                  /\ \A j \in DOMAIN idx : B[idx[j]].pub <= B[idx[c]].pub
                  /\ \A j \in 1 .. (c - 1) : B[idx[j]].pub < B[idx[c]].pub
           rest == [j \in 1 .. (Len(idx) - 1) |-> IF j < k THEN idx[j] ELSE idx[j + 1]]
       IN <<idx[k]>> \o SortNewestFirst(B, rest)

(* the batch positions of one identity, in batch order *)
groupByFuzzyIdentity(B, f) == Ascending({i \in DOMAIN B : B[i].fuzzy = f})

PosIn(g, x) == CHOOSE k \in DOMAIN g : g[k] = x

(* the outcomes of detectVersion for one listing *)
(* the price history after a link to the row existing at time t *)
HistoryWithExisting(h, existing) ==
  IF existing.created # Null /\ existing.price # Null
  THEN PushIfAbsent(h, existing.created, existing.price)
  ELSE h

detectVersion(L, it, jobId, t) ==
  LET propertyIdentity == computePropertyIdentity(it)
  IN IF propertyIdentity = NoPropertyIdentity
     THEN {it}
     ELSE {IF e = Null
           THEN [it EXCEPT !.pid = propertyIdentity]
           ELSE [it EXCEPT !.pid = propertyIdentity,
                           !.prev = e,
                           !.hist = SortByDate(Append(HistoryWithExisting(it.hist, L[e]),
                                                      [date |-> t, price |-> it.price]))] :
             e \in findListingByPropertyIdentity(L, jobId, propertyIdentity, it.hash)}

linkListingToExisting(L, it, existingId, t) ==
  [it EXCEPT !.prev = existingId,
             !.hist = SortByDate(IF it.price # Null
                                 THEN Append(HistoryWithExisting(it.hist, L[existingId]),
                                             [date |-> t, price |-> it.price])
                                 ELSE HistoryWithExisting(it.hist, L[existingId]))]

(* step 1 *)
WithIdentities(B) ==
  [i \in DOMAIN B |-> [B[i] EXCEPT !.fuzzy = computeFuzzyIdentity(B[i]),
                                   !.pid = computePropertyIdentity(B[i])]]

(* step 4 for the listing at position i, dbMatches being m *)
LinkInGroup(L, B, m, i, t) ==
  LET g == SortNewestFirst(B, groupByFuzzyIdentity(B, B[i].fuzzy))
      k == PosIn(g, i)
  IN IF k < Len(g)
     THEN [B[i] EXCEPT !.bprev = B[g[k + 1]].hash]
     ELSE IF B[i].fuzzy \in DOMAIN m
          THEN linkListingToExisting(L, B[i], m[B[i].fuzzy], t)
          ELSE B[i]

(* the outcomes <<rows, batch>> of detectVersionsWithBatchAwareness *)
detectVersionsWithBatchAwareness(L, B0, jobId, t) ==
  IF B0 = << >>
  THEN {<<L, B0>>}
  ELSE
  LET B == WithIdentities(B0)
      F == {B[i].fuzzy : i \in DOMAIN B} \ {Null}
      noIdentity == {i \in DOMAIN B : B[i].fuzzy = Null}
      strict == {s \in [noIdentity ->
                           UNION {detectVersion(L, B[i], jobId, t) : i \in noIdentity}] :
                   \A i \in noIdentity : s[i] \in detectVersion(L, B[i], jobId, t)}
  IN {<<[r \in Ids(L) |-> IF \E f \in DOMAIN m : m[f] = r
                          THEN markListingAsSuperseded(L, r)[r]
                          ELSE L[r]],
        [i \in DOMAIN B |-> IF i \in noIdentity THEN s[i] ELSE LinkInGroup(L, B, m, i, t)]>> :
        m \in findListingsByFuzzyIdentities(L, jobId, F), s \in strict}

(* ---------------------------------------------------------------------- *)
(* FredyPipelineExecutioner._save and _calculateDistance                  *)
(* ---------------------------------------------------------------------- *)
(* group.find((l) => !referencedAsOlder.has(l.id)) || group[group.length - 1] *)
NewestOfGroup(B, f) ==
  LET listingsWithFuzzyId == SelectSeq(B, LAMBDA it : it.fuzzy # Null)
      referencedAsOlder ==
        {listingsWithFuzzyId[i].bprev : i \in DOMAIN listingsWithFuzzyId} \ {Null}
      group == SelectSeq(listingsWithFuzzyId, LAMBDA it : it.fuzzy = f)
      free == {k \in DOMAIN group : group[k].hash \notin referencedAsOlder}
  IN IF free = {}
     THEN group[Len(group)]
     ELSE group[CHOOSE k \in free : \A j \in free : k <= j]

(* the loop over byFuzzyId; the groups update rows of different identities *)
RECURSIVE MarkGroups(_, _, _, _)
MarkGroups(L, jobId, B, fs) ==
  IF fs = << >>
  THEN L
  ELSE MarkGroups(markAllVersionsAsSuperseded(L, jobId, Head(fs), NewestOfGroup(B, Head(fs)).hash),
                  jobId, B, Tail(fs))

SaveResult(L, jobId, providerId, B, t) ==
  LET L1 == storeListings(L, jobId, providerId, B, t)
      L2 == resolveBatchVersionChains(L1, jobId, B)
      F == {B[i].fuzzy : i \in DOMAIN B} \ {Null}
  IN [after |-> L1, final |-> MarkGroups(L2, jobId, B, Ascending(F))]

(* the job's user has a home address with coordinates *)
HasHome(jobId) == jobId = "jobA"

RECURSIVE DistanceRows(_, _)
DistanceRows(L, B) ==
  IF B = << >>
  THEN L
  ELSE DistanceRows(IF Head(B).lat # Null THEN updateListingDistance(L, Head(B).hash, 1) ELSE L,
                    Tail(B))

DistanceBatch(B) ==
  [i \in DOMAIN B |-> IF B[i].lat # Null THEN [B[i] EXCEPT !.dist = 1] ELSE B[i]]

(* ---------------------------------------------------------------------- *)
(* The run pipeline: FredyPipelineExecutioner                             *)
(* ---------------------------------------------------------------------- *)
(* the then-chain of execute() *)
Chain ==
  <<"fetch", "normalize", "filter", "findNew", "geocode", "enrich", "media", "detect",
    "save", "distance", "similarity", "notify">>

IndexOf(s) == CHOOSE i \in DOMAIN Chain : Chain[i] = s

NextStageSkipping(s) == IF IndexOf(s) + 1 < Len(Chain) THEN Chain[IndexOf(s) + 2] ELSE "done"

(* the handler the then-chain calls once the handler s has resolved *)
NextStage(s) == IF IndexOf(s) < Len(Chain) THEN Chain[IndexOf(s) + 1] ELSE "done"

(* err.name of a NoNewListingsWarning *)
NoNewListingsWarning == "NoNewListingsWarning"

LogLevelAlwaysError(name) == "error"

(* the level _handleError logs an error of this name at *)
LogLevel(name) == IF name = "NoNewListingsWarning" THEN "debug" ELSE "error"

(* providers with a getListingDetails function *)
HasListingDetails(providerId) == providerId = "P1"

NoErr == [name |-> "none", at |-> "none"]
NoSoft ==
  [geo |-> << >>, geoGiven |-> << >>, enrich |-> << >>, enrichGiven |-> << >>,
   media |-> << >>, mediaGiven |-> << >>]
NoFound == [ran |-> FALSE, hashes |-> {}, known |-> {}]
NoStored == [ran |-> FALSE, before |-> << >>, after |-> << >>, items |-> << >>]

(* no function call of a function specification *)
NoArg == [kind |-> "none"]
NoRet == [called |-> FALSE]
NoCall == arg = NoArg /\ ret = NoRet

(* no run is in progress *)
IdleRun ==
  /\ now = 1
  /\ runs = 0
  /\ pc = "idle"
  /\ job = "jobA"
  /\ provider = "P1"
  /\ batch = << >>
  /\ trace = << >>
  /\ err = NoErr
  /\ handled = 0
  /\ level = "none"
  /\ outcome = "none"
  /\ soft = NoSoft
  /\ found = NoFound
  /\ stored = NoStored

(* the arrays a provider can return: up to n of the listings S, in any order *)
BatchesOf(S, n) == UNION {[1 .. k -> S] : k \in 0 .. n}

(* B.filter: the elements at the positions keep holds of, in order *)
FilterAt(B, keep) ==
  LET idx == Ascending({i \in DOMAIN B : keep[i]})
  IN [j \in DOMAIN idx |-> B[idx[j]]]

(* the handler s resolves with B: the chain calls the next handler *)
Resolves(s, B) ==
  /\ pc' = NextStage(s)
  /\ batch' = B
  /\ trace' = Append(trace, s)
  /\ err' = err

(* the handler s throws or its promise rejects: the chain skips to catch *)
Rejects(s, name) ==
  /\ pc' = "rejected"
  /\ batch' = batch
  /\ trace' = Append(trace, s)
  /\ err' = [name |-> name, at |-> s]

(* the per-listing body of the loops of _geocode, _enrichWithDetails, _downloadMedia *)
GeocodeItem(it, g) == IF g = "coords" THEN [it EXCEPT !.lat = 1] ELSE it
EnrichItem(it, d) == IF d = "rooms" THEN [it EXCEPT !.rooms = 1] ELSE it
MediaItemPartial(it, m) == [it EXCEPT !.med = 1]
MediaItem(it, m) == IF m = "ok" THEN [it EXCEPT !.med = 1] ELSE it

(* execute(): urlModifier(...) is evaluated before Promise.resolve is called *)
Execute(E) ==
  /\ pc \in {"idle", "done", "threw"}
  /\ runs < E.runs
  /\ runs' = runs + 1
  /\ \E d \in E.tick : now' = now + d
  /\ \E c \in E.configs : job' = c[1] /\ provider' = c[2]
  /\ \E u \in E.url :
        IF u = "ok"
        THEN pc' = "fetch" /\ err' = NoErr /\ outcome' = "none"
        ELSE pc' = "threw" /\ err' = [name |-> "Error", at |-> "url"] /\ outcome' = "threw"
  /\ batch' = << >>
  /\ trace' = << >>
  /\ handled' = 0
  /\ level' = "none"
  /\ soft' = NoSoft
  /\ found' = NoFound
  /\ stored' = NoStored
  /\ UNCHANGED <<listings, links, res, nops, auxVars>>

(* a collaborator of the handler at pc (network, database, provider       *)
(* function, cache) throws                                                *)
StageThrows ==
  /\ pc \in {"fetch", "normalize", "filter", "findNew", "detect", "save", "distance", "similarity"}
  /\ Rejects(pc, "Error")
  /\ UNCHANGED <<listings, links, res, nops, auxVars, now, runs, job, provider, handled, level,
                 outcome, soft, found, stored>>

_fetchListingsWithKnownHashes(E) ==
  /\ pc = "fetch"
  /\ \E B \in BatchesOf(E.raws, E.maxBatch) : Resolves("fetch", B)
  /\ UNCHANGED <<listings, links, res, nops, auxVars, now, runs, job, provider, handled, level,
                 outcome, soft, found, stored>>

_normalize ==
  /\ pc = "normalize"
  /\ Resolves("normalize", [i \in DOMAIN batch |-> normalize(batch[i])])
  /\ UNCHANGED <<listings, links, res, nops, auxVars, now, runs, job, provider, handled, level,
                 outcome, soft, found, stored>>

_filter(E) ==
  /\ pc = "filter"
  /\ \E keep \in [DOMAIN batch -> E.keep] : Resolves("filter", FilterAt(batch, keep))
  /\ UNCHANGED <<listings, links, res, nops, auxVars, now, runs, job, provider, handled, level,
                 outcome, soft, found, stored>>

_findNew ==
  /\ pc = "findNew"
  /\ LET hashes == getKnownListingHashesForJobAndProvider(listings, job, provider)
         newListings == SelectSeq(batch, LAMBDA o : o.hash \notin hashes)
     IN /\ found' = [ran |-> TRUE, hashes |-> {batch[i].hash : i \in DOMAIN batch},
                     known |-> hashes]
        /\ IF newListings = << >>
           THEN Rejects("findNew", NoNewListingsWarning)
           ELSE Resolves("findNew", newListings)
  /\ UNCHANGED <<listings, links, res, nops, auxVars, now, runs, job, provider, handled, level,
                 outcome, soft, stored>>

(* g[i] is what geocodeAddress does for listing i; the await is not in a try *)
_geocode(E) ==
  /\ pc = "geocode"
  /\ \E g \in [DOMAIN batch -> E.geo] :
        /\ \A i \in DOMAIN batch : ~batch[i].addr => g[i] = "null"
        /\ IF \E i \in DOMAIN batch : g[i] = "throw"
           THEN Rejects("geocode", "Error")
           ELSE Resolves("geocode", [i \in DOMAIN batch |-> GeocodeItem(batch[i], g[i])])
        /\ soft' = [soft EXCEPT !.geo = g, !.geoGiven = batch]
  /\ UNCHANGED <<listings, links, res, nops, auxVars, now, runs, job, provider, handled, level,
                 outcome, found, stored>>

(* d[i] is what getListingDetails does for listing i, inside the try *)
_enrichWithDetails(E) ==
  /\ pc = "enrich"
  /\ IF ~HasListingDetails(provider)
     THEN Resolves("enrich", batch) /\ soft' = soft
     ELSE \E d \in [DOMAIN batch -> E.details] :
            /\ Resolves("enrich", [i \in DOMAIN batch |-> EnrichItem(batch[i], d[i])])
            /\ soft' = [soft EXCEPT !.enrich = d, !.enrichGiven = batch]
  /\ UNCHANGED <<listings, links, res, nops, auxVars, now, runs, job, provider, handled, level,
                 outcome, found, stored>>

(* m[i] is what downloadListingMedia does for listing i, inside the try;  *)
(* "skip" is a listing without images and documents                       *)
_downloadMedia(E) ==
  /\ pc = "media"
  /\ \E m \in [DOMAIN batch -> E.media] :
        /\ Resolves("media", [i \in DOMAIN batch |-> MediaItem(batch[i], m[i])])
        /\ soft' = [soft EXCEPT !.media = m, !.mediaGiven = batch]
  /\ UNCHANGED <<listings, links, res, nops, auxVars, now, runs, job, provider, handled, level,
                 outcome, found, stored>>

_detectVersions ==
  /\ pc = "detect"
  /\ \E o \in detectVersionsWithBatchAwareness(listings, batch, job, now) :
        /\ listings' = o[1]
        /\ Resolves("detect", o[2])
  /\ UNCHANGED <<links, res, nops, auxVars, now, runs, job, provider, handled, level,
                 outcome, soft, found, stored>>

_save ==
  /\ pc = "save"
  /\ LET r == SaveResult(listings, job, provider, batch, now)
     IN /\ listings' = r.final
        /\ stored' = [ran |-> TRUE, before |-> listings, after |-> r.after, items |-> batch]
  /\ Resolves("save", batch)
  /\ UNCHANGED <<links, res, nops, auxVars, now, runs, job, provider, handled, level,
                 outcome, soft, found>>

_calculateDistance ==
  /\ pc = "distance"
  /\ IF batch # << >> /\ HasHome(job)
     THEN /\ listings' = DistanceRows(listings, batch)
          /\ Resolves("distance", DistanceBatch(batch))
     ELSE /\ listings' = listings
          /\ Resolves("distance", batch)
  /\ UNCHANGED <<links, res, nops, auxVars, now, runs, job, provider, handled, level,
                 outcome, soft, found, stored>>

(* similar[i] is the answer of the similarity cache for listing i *)
_filterBySimilarListings(E) ==
  /\ pc = "similarity"
  /\ \E similar \in [DOMAIN batch -> E.similar] :
        Resolves("similarity", FilterAt(batch, [i \in DOMAIN batch |-> ~similar[i]]))
  /\ UNCHANGED <<listings, links, res, nops, auxVars, now, runs, job, provider, handled, level,
                 outcome, soft, found, stored>>

_notifyUnguarded(E) ==
  /\ pc = "notify"
  /\ \E sent \in E.send :
        IF sent = "ok"
        THEN Resolves("notify", batch) /\ outcome' = "notified"
        ELSE Rejects("notify", "Error") /\ outcome' = outcome
  /\ UNCHANGED <<listings, links, res, nops, auxVars, now, runs, job, provider, handled, level,
                 soft, found, stored>>

_notify(E) ==
  /\ pc = "notify"
  /\ IF batch = << >>
     THEN Rejects("notify", NoNewListingsWarning) /\ outcome' = outcome
     ELSE \E sent \in E.send :
            IF sent = "ok"
            THEN Resolves("notify", batch) /\ outcome' = "notified"
            ELSE Rejects("notify", "Error") /\ outcome' = outcome
  /\ UNCHANGED <<listings, links, res, nops, auxVars, now, runs, job, provider, handled, level,
                 soft, found, stored>>

(* .catch(this._handleError.bind(this)) *)
_handleError ==
  /\ pc = "rejected"
  /\ pc' = "done"
  /\ handled' = handled + 1
  /\ level' = LogLevel(err.name)
  /\ outcome' = IF LogLevel(err.name) = "debug" THEN "noNew" ELSE "failed"
  /\ UNCHANGED <<listings, links, res, nops, auxVars, now, runs, job, provider, batch, trace, err,
                 soft, found, stored>>

Run(E) ==
  \/ Execute(E)
  \/ _fetchListingsWithKnownHashes(E)
  \/ _normalize
  \/ _filter(E)
  \/ _findNew
  \/ _geocode(E)
  \/ _enrichWithDetails(E)
  \/ _downloadMedia(E)
  \/ _detectVersions
  \/ _save
  \/ _calculateDistance
  \/ _filterBySimilarListings(E)
  \/ _notify(E)
  \/ _handleError

InitRuns ==
  /\ listings = << >>
  /\ links = {}
  /\ res = NoRes
  /\ nops = 0
  /\ IdleRun
  /\ NoCall

(* ---------------------------------------------------------------------- *)
(* Specification of runs in a failing environment                         *)
(* ---------------------------------------------------------------------- *)
PipeRuns == 2         \* runs per behaviour
PipeHashes == 2       \* listings the providers offer
PipeBatch == 2        \* listings per fetch

PipeEnv ==
  [runs |-> PipeRuns,
   configs |-> {<<"jobA", "P1">>},
   raws |-> {RawListing(h, TRUE, 4, Null) : h \in 1 .. PipeHashes},
   maxBatch |-> PipeBatch,
   url |-> {"ok", "throw"},
   keep |-> BOOLEAN,
   geo |-> {"coords", "null", "throw"},
   details |-> {"rooms", "fail"},
   media |-> {"ok", "fail"},
   similar |-> BOOLEAN,
   send |-> {"ok", "reject"},
   tick |-> {1}]

NextPipe == Run(PipeEnv) \/ StageThrows

SpecPipe == InitRuns /\ [][NextPipe]_vars

(* ---------------------------------------------------------------------- *)
(* Specification of persistence over runs of two jobs and two providers   *)
(* ---------------------------------------------------------------------- *)
StoreRuns == 2        \* runs per behaviour
StoreHashes == 2      \* listings the providers offer
StoreBatch == 2       \* listings per fetch

StoreEnv ==
  [runs |-> StoreRuns,
   configs |-> {<<"jobA", "P1">>, <<"jobA", "P2">>, <<"jobB", "P1">>},
   raws |-> {RawListing(h, a, IF a THEN 4 ELSE 2, Null) : h \in 1 .. StoreHashes, a \in BOOLEAN},
   maxBatch |-> StoreBatch,
   url |-> {"ok"},
   keep |-> {TRUE},
   geo |-> {"coords"},
   details |-> {"none"},
   media |-> {"skip"},
   similar |-> {FALSE},
   send |-> {"ok"},
   tick |-> {1}]

NextStore == Run(StoreEnv)

SpecStore == InitRuns /\ [][NextStore]_vars

(* ---------------------------------------------------------------------- *)
(* Specification of version detection over completed runs                 *)
(* ---------------------------------------------------------------------- *)
VersionRuns == 2      \* runs per behaviour
VersionHashes == 2    \* listings the providers offer
VersionBatch == 2     \* listings per fetch

VersionEnv ==
  [runs |-> VersionRuns,
   configs |-> {<<"jobA", "P1">>, <<"jobA", "P2">>},
   raws |-> {RawListing(h, a[1], a[2], pub) :
               h \in 1 .. VersionHashes, a \in {<<TRUE, 3>>, <<TRUE, 4>>},
               pub \in 0 .. MaxPub},
   maxBatch |-> VersionBatch,
   url |-> {"ok"},
   keep |-> {TRUE},
   geo |-> {"coords", "null"},
   details |-> {"none"},
   media |-> {"skip"},
   similar |-> {FALSE},
   send |-> {"ok"},
   tick |-> {1}]

NextVersions == Run(VersionEnv)

SpecVersions == InitRuns /\ [][NextVersions]_vars

(* ---------------------------------------------------------------------- *)
(* Specification of the manual-link operations on a populated store       *)
(* ---------------------------------------------------------------------- *)
Row(h, pub, created) ==
  [hash |-> HashOf(h), job |-> "jobA", provider |-> "P1", pub |-> pub, created |-> created,
   prev |-> Null, sup |-> FALSE, fuzzy |-> Null, pid |-> NoPropertyIdentity, lat |-> Null,
   dist |-> Null,
   deleted |-> FALSE, price |-> PriceOf(h), hist |-> << >>]

(* arguments: every id, the hash of the first listing, a hash of no listing *)
Args == (1 .. NumListings) \cup {HashOf(1), HashOf(0)}

(* the stores the manual-link operations start from: NumListings          *)
(* unrelated listings, or those listings after a first link of 1 and 2    *)
BaseStores ==
  {[i \in 1 .. NumListings |-> Row(i, pubs[i], i)] : pubs \in [1 .. NumListings -> 0 .. MaxPub]}

InitLinks ==
  /\ \E base \in BaseStores :
       \E s \in {<<base, {}>>} \cup {<<o[1], o[2]>> : o \in createManualLink(base, {}, 1, 2)} :
          /\ listings = s[1]
          /\ links = s[2]
  /\ res = NoRes
  /\ nops = 0
  /\ IdleRun
  /\ NoCall

CreateLink ==
  /\ nops < MaxOps
  /\ nops' = nops + 1
  /\ \E a \in Args, b \in Args :
       \E o \in createManualLink(listings, links, a, b) :
          /\ listings' = o[1]
          /\ links' = o[2]
          /\ res' = o[3]
  /\ UNCHANGED <<runVars, auxVars>>

RemoveLink ==
  /\ nops < MaxOps
  /\ nops' = nops + 1
  /\ \E a \in Args, b \in Args :
       \E o \in removeManualLink(listings, links, a, b) :
          /\ listings' = o[1]
          /\ links' = o[2]
          /\ res' = o[3]
  /\ UNCHANGED <<runVars, auxVars>>

NextLinks == CreateLink \/ RemoveLink

SpecLinks == InitLinks /\ [][NextLinks]_vars

(* ---------------------------------------------------------------------- *)
(* Graph notions used by the properties                                   *)
(* ---------------------------------------------------------------------- *)
Component(i) == AllInChain(listings, links, i)
NonSuperseded(C) == {i \in C : ~listings[i].sup}
IsLatest(i, C) == \A o \in C : DateOf(listings[o]) <= DateOf(listings[i])

(* ---------------------------------------------------------------------- *)
(* Properties of the manual-link operations                               *)
(* ---------------------------------------------------------------------- *)

(* C1: after any sequence of manual-link create and remove operations on  *)
(* a store whose components each have exactly one non-superseded listing, *)
(* every connected component of the version graph still has exactly one   *)
(* listing with isSuperseded = false.                                     *)
C1_ChainInvariant ==
  \A i \in Ids(listings) : Cardinality(NonSuperseded(Component(i))) = 1

(* C2: after a successful createManualLink(A, B) the member of the        *)
(* combined component with the latest publishedAt ?? createdAt is not     *)
(* superseded and every other member of that component is superseded.     *)
C2_HeadAfterCreate ==
  (res.op = "create" /\ res.success) =>
     \E h \in Component(res.l1) :
        /\ IsLatest(h, Component(res.l1))
        /\ NonSuperseded(Component(res.l1)) = {h}

(* C5: whatever the argument order of the createManualLink calls, the     *)
(* manual-link store holds at most one edge between two listings A and B. *)
C5_OneEdgePerPair ==
  \A a \in Ids(listings), b \in Ids(listings) :
     Cardinality({k \in links : k = <<a, b>> \/ k = <<b, a>>}) <= 1

(* ---------------------------------------------------------------------- *)
(* Properties of the runs                                                 *)
(* ---------------------------------------------------------------------- *)
RunCompleted == pc = "done" /\ runs > 0

(* C3: after any sequence of completed pipeline runs of a job, through    *)
(* the batch-aware fuzzy-identity path and through the strict-identity    *)
(* fallback, every connected component of the version graph has exactly   *)
(* one listing with isSuperseded = false, and that listing is the member  *)
(* with the latest publishedAt ?? createdAt.                              *)
C3_RunsKeepOneLatestHead ==
  RunCompleted =>
     \A i \in Ids(listings) :
        \E h \in Component(i) :
           /\ NonSuperseded(Component(i)) = {h}
           /\ IsLatest(h, Component(i))

SameKey(r1, r2) == r1.job = r2.job /\ r1.hash = r2.hash

(* C4: at all times the store holds at most one listing per (jobId,       *)
(* hash); persisting a batch that contains a hash already stored for the  *)
(* job leaves every existing row as it was and adds no row for that hash. *)
C4_OneRowPerJobAndHash ==
  /\ \A i \in Ids(listings), j \in Ids(listings) : SameKey(listings[i], listings[j]) => i = j
  /\ stored.ran =>
       /\ Len(stored.before) <= Len(stored.after)
       /\ \A i \in Ids(stored.before) : stored.after[i] = stored.before[i]
       /\ \A i \in Ids(stored.after), j \in Ids(stored.after) :
             SameKey(stored.after[i], stored.after[j]) => i = j

(* C4 witness: storeListings ran on a batch with a hash the job already had *)
C4_Witness ==
  /\ stored.ran
  /\ \E k \in DOMAIN stored.items : HasHash(stored.before, job, stored.items[k].hash)
  /\ \E k \in DOMAIN stored.items : ~HasHash(stored.before, job, stored.items[k].hash)

(* C6: within one run the stages execute strictly in pipeline order: the  *)
(* stages entered so far are an initial part of the chain fetch,          *)
(* normalize, filter, find-new, geocode, enrich, media, detect, persist,  *)
(* distance, similarity, notify, and the stage to run next is the one     *)
(* right after the last one that has completed.                           *)
C6_StagesInOrder ==
  /\ Len(trace) <= Len(Chain)
  /\ \A i \in DOMAIN trace : trace[i] = Chain[i]
  /\ (pc \notin {"idle", "done", "threw", "rejected"}) => pc = Chain[Len(trace) + 1]

(* C6 witness: a run went through all twelve stages *)
C6_Witness == outcome = "notified" /\ trace = Chain

(* C7: if _findNew finds no fetched listing with a hash outside the known *)
(* set of the (job, provider), the run performs no geocoding, enrichment, *)
(* media download, version detection, persist or notification, and ends   *)
(* in the early-exit state logged at debug level, not in the failure      *)
(* state.                                                                 *)
C7_NoNewEndsQuietly ==
  (found.ran /\ found.hashes \subseteq found.known) =>
     /\ trace = SubSeq(Chain, 1, IndexOf("findNew"))
     /\ pc \in {"rejected", "done"}
     /\ ~stored.ran
     /\ soft = NoSoft
     /\ outcome \notin {"failed", "notified"}
     /\ pc = "done" => (handled = 1 /\ level = "debug" /\ outcome = "noNew")

(* C7 witness: a run whose fetched listings were all known has ended *)
C7_Witness ==
  /\ found.ran
  /\ found.hashes # {}
  /\ found.hashes \subseteq found.known
  /\ pc = "done"

(* C8: an unexpected exception raised in any stage of a run, the          *)
(* construction of the request URL included, prevents every later stage   *)
(* from executing and is handled exactly once by the central error        *)
(* handler at error level; the promise of execute() never rejects and     *)
(* execute() never throws.                                                *)
C8_HardFailureHandledOnce ==
  (err.name = "Error") =>
     /\ pc # "threw"
     /\ err.at # "url" => (trace # << >> /\ trace[Len(trace)] = err.at)
     /\ pc = "done" => (handled = 1 /\ level = "error" /\ outcome = "failed")

(* C9: if geocoding the address of one new listing fails (the geocoder    *)
(* throws or rejects), the run does not abort: the listing keeps null     *)
(* coordinates and every listing of the batch goes on to the next stages  *)
(* and reaches persist.                                                   *)
C9_GeocodeFailureIsSoft ==
  (\E i \in DOMAIN soft.geo : soft.geo[i] = "throw") =>
     /\ err.at # "geocode"
     /\ pc = "enrich" =>
          /\ Len(batch) = Len(soft.geoGiven)
          /\ \A i \in DOMAIN batch : soft.geo[i] = "throw" => batch[i].lat = Null
     /\ stored.ran => Len(stored.items) = Len(soft.geoGiven)

(* what a listing carries after a per-item stage, given what happened *)
Carried(it, given, gotRooms, gotMedia) ==
  /\ it.hash = given.hash
  /\ it.lat = given.lat
  /\ it.rooms = (IF gotRooms THEN 1 ELSE given.rooms)
  /\ it.med = (IF gotMedia THEN 1 ELSE given.med)

(* C10: during detail enrichment and media download a failure for one     *)
(* listing changes nothing for the other listings of the batch, which     *)
(* get what their own calls returned, and the failing listing goes on to  *)
(* persist and notification with the data it had before the failure.      *)
C10_ItemFailuresIsolated ==
  /\ err.at \notin {"enrich", "media"}
  /\ (pc = "media" /\ soft.enrich # << >>) =>
        /\ Len(batch) = Len(soft.enrichGiven)
        /\ \A i \in DOMAIN batch :
              /\ soft.enrich[i] = "fail" => batch[i] = soft.enrichGiven[i]
              /\ Carried(batch[i], soft.enrichGiven[i], soft.enrich[i] = "rooms", FALSE)
  /\ pc = "detect" =>
        /\ Len(batch) = Len(soft.mediaGiven)
        /\ \A i \in DOMAIN batch :
              /\ soft.media[i] = "fail" => batch[i] = soft.mediaGiven[i]
              /\ Carried(batch[i], soft.mediaGiven[i], FALSE, soft.media[i] = "ok")
  /\ stored.ran =>
        /\ Len(stored.items) = Len(soft.mediaGiven)
        /\ \A i \in DOMAIN stored.items :
              Carried(stored.items[i], soft.mediaGiven[i], FALSE, soft.media[i] = "ok")
  /\ outcome = "notified" =>
        \A k \in DOMAIN batch :
           \E i \in DOMAIN soft.mediaGiven :
              Carried(batch[k], soft.mediaGiven[i], FALSE, soft.media[i] = "ok")

(* C10 witness: a run notified about a batch in which enrichment failed   *)
(* for one listing and worked for another, and media download likewise    *)
C10_Witness ==
  /\ outcome = "notified"
  /\ stored.ran
  /\ \E i \in DOMAIN soft.enrich, j \in DOMAIN soft.enrich :
        soft.enrich[i] = "fail" /\ soft.enrich[j] = "rooms"
  /\ \E i \in DOMAIN soft.media, j \in DOMAIN soft.media :
        soft.media[i] = "fail" /\ soft.media[j] = "ok"
  /\ \E k \in DOMAIN batch : batch[k].med = Null

(* C11: when the notification promise of one adapter rejects, the run     *)
(* still waits for the other notification promises and then ends in the   *)
(* success (notified) state, not in the failure state.                    *)
C11_NotifyRejectionStillNotifies ==
  (err.at = "notify" /\ err.name = "Error") =>
     /\ outcome # "failed"
     /\ level # "error"
     /\ pc = "done" => outcome = "notified"

(* the similarity filter has resolved and kept none of the persisted listings *)
AllDroppedBySimilarity ==
  /\ stored.ran
  /\ IndexOf("similarity") \in DOMAIN trace
  /\ err.at # "similarity"
  /\ batch = << >>

(* C12: if every newly persisted listing of a run is dropped by the       *)
(* similarity filter, no notification is dispatched and the run ends in   *)
(* the early-exit state of the 'no new listings' case (debug level, not a *)
(* failure), with the listings remaining persisted.                       *)
C12_AllSimilarEndsQuietly ==
  AllDroppedBySimilarity =>
     /\ pc \in {"notify", "rejected", "done"}
     /\ outcome \notin {"notified", "failed"}
     /\ err.name \in {"none", NoNewListingsWarning}
     /\ pc = "rejected" => err = [name |-> NoNewListingsWarning, at |-> "notify"]
     /\ pc = "done" => (handled = 1 /\ level = "debug" /\ outcome = "noNew")
     /\ \A k \in DOMAIN stored.items : HasHash(listings, job, stored.items[k].hash)
     /\ \A i \in Ids(stored.after) : i \in Ids(listings) /\ listings[i].hash = stored.after[i].hash

(* C12 witness: a run persisted two listings, the similarity filter       *)
(* dropped both and the run has ended                                     *)
C12_Witness ==
  /\ AllDroppedBySimilarity
  /\ Len(stored.items) = 2
  /\ Len(stored.after) > Len(stored.before)
  /\ trace = Chain
  /\ pc = "done"

(* ---------------------------------------------------------------------- *)
(* Failures of the manual-link operations                                 *)
(* ---------------------------------------------------------------------- *)

(* C13: createManualLink and removeManualLink, called with an id or hash  *)
(* that matches no persisted listing, return a result of the form         *)
(* {success: false, error} and leave all listings and manual links        *)
(* unchanged.                                                             *)
C13_MissingListingGivesError ==
  [][(res'.l1 = Null \/ res'.l2 = Null) =>
        /\ ~res'.success
        /\ res'.error # "none"
        /\ listings' = listings
        /\ links' = links]_vars

(* ---------------------------------------------------------------------- *)
(* Distance to the home address                                           *)
(* ---------------------------------------------------------------------- *)
DistanceStageDone ==
  /\ stored.ran
  /\ IndexOf("distance") \in DOMAIN trace
  /\ err.at # "distance"

(* C16: after a run for a job whose user has a configured home address,   *)
(* every listing persisted by that run that has coordinates has its       *)
(* stored distance-to-home value set to the distance computed in the run. *)
C16_StoredDistanceIsSet ==
  (DistanceStageDone /\ HasHome(job)) =>
     \A k \in DOMAIN stored.items :
        (stored.items[k].lat # Null /\ ~HasHash(stored.before, job, stored.items[k].hash)) =>
           listings[IdOfHash(listings, job, stored.items[k].hash)].dist = 1

(* ---------------------------------------------------------------------- *)
(* fuzzyPropertyMatcher.js: computeFuzzyIdentity on the data of a listing *)
(* ---------------------------------------------------------------------- *)
(* An address is a sequence of tokens separated by blanks or commas: 0 is *)
(* a word (street, district, city), a positive number is that number      *)
(* written in digits (12 a house number, 10115 a five-digit ZIP code).    *)
(* The empty sequence is a listing without address.                       *)
MaxTokens == 3        \* tokens of an address

IsDigits(t) == t > 0
IsFiveDigits(t) == t >= 10000 /\ t <= 99999

(* address.match(/(?:^|[\s,])(?:D-?|DE-?)?(\d{5})(?:[\s,]|$)/): the first *)
(* five-digit token                                                       *)
extractZipCode(address) ==
  LET M == {i \in DOMAIN address : IsFiveDigits(address[i])}
  IN IF M = {} THEN Null ELSE address[CHOOSE i \in M : \A j \in M : i <= j]

(* address.match(/\s(\d+ ...)(?:\s|,|$)/): the first token of digits that *)
(* has white space before it, whatever its length                         *)
extractHouseNumber(address) ==
  LET M == {i \in DOMAIN address : i > 1 /\ IsDigits(address[i])}
  IN IF M = {} THEN Null ELSE address[CHOOSE i \in M : \A j \in M : i <= j]

(* lat and lon are numbers in range and not both 0; a coordinate of the   *)
(* model is null or a number other than 0                                 *)
hasValidCoordinates(lat, lon) ==
  /\ lat # Null /\ lon # Null
  /\ lat >= -90 /\ lat <= 90 /\ lon >= -180 /\ lon <= 180

(* Math.round(x / d) for x >= 0 and d > 0 *)
RoundDiv(x, d) == (2 * x + d) \div (2 * d)

Max(a, b) == IF a >= b THEN a ELSE b

(* Math.round(numericSize / 3) * 3; -1 stands for the null of a listing   *)
(* without size, as 0 is a bucket                                         *)
computeSizeBucket(size) == IF size = Null THEN NaN ELSE RoundDiv(size, 3) * 3

(* bucketSize = max(5000, round(price * 0.02 / 1000) * 1000) *)
computePriceBucket(price) ==
  IF price = Null
  THEN NaN
  ELSE LET bucketSize == Max(5000, RoundDiv(2 * price, 100000) * 1000)
       IN RoundDiv(price, bucketSize) * bucketSize

(* the parts array of computeFuzzyIdentity as a set of <<name, value>> *)
FuzzyIdentityParts(listing) ==
  (IF hasValidCoordinates(listing.latitude, listing.longitude)
   THEN {<<"geo", 1000 * listing.latitude + listing.longitude>>} ELSE {})
  \cup (IF extractZipCode(listing.address) # Null
        THEN {<<"plz", extractZipCode(listing.address)>>} ELSE {})
  \cup (IF extractHouseNumber(listing.address) # Null
        THEN {<<"hn", extractHouseNumber(listing.address)>>} ELSE {})
  \cup (IF computeSizeBucket(listing.size) # NaN
        THEN {<<"size", computeSizeBucket(listing.size)>>} ELSE {})
  \cup (IF listing.rooms # Null /\ listing.rooms > 0
        THEN {<<"rooms", listing.rooms>>} ELSE {})
  \cup (IF computePriceBucket(listing.price) # NaN
        THEN {<<"price", computePriceBucket(listing.price)>>} ELSE {})

(* the null computeFuzzyIdentity returns *)
NoIdentity == {}

(* the hash of the sorted and joined parts, or null with fewer than four  *)
(* parts: two listings get the same hash iff they have the same parts     *)
FuzzyIdentityOf(listing) ==
  IF Cardinality(FuzzyIdentityParts(listing)) < 4
  THEN NoIdentity
  ELSE FuzzyIdentityParts(listing)

(* ---------------------------------------------------------------------- *)
(* Specification of computeFuzzyIdentity as a function                    *)
(* ---------------------------------------------------------------------- *)
RECURSIVE SeqsUpTo(_, _)
SeqsUpTo(S, n) ==
  IF n = 0
  THEN {<< >>}
  ELSE SeqsUpTo(S, n - 1) \cup {Append(a, t) : a \in SeqsUpTo(S, n - 1), t \in S}

(* addresses as the providers give them: a house number follows the name *)
(* of its street                                                         *)
Addresses ==
  {a \in SeqsUpTo({0, 12, 10115}, MaxTokens) :
     \A i \in DOMAIN a : (IsDigits(a[i]) /\ ~IsFiveDigits(a[i])) => (i > 1 /\ a[i - 1] = 0)}

FuzzyListings ==
  [kind : {"listing"}, latitude : {Null, 52}, longitude : {Null, 13}, address : Addresses,
   size : {Null, 70}, rooms : {Null, 3}, price : {Null, 1200}]

InitFuzzy ==
  /\ listings = << >>
  /\ links = {}
  /\ res = NoRes
  /\ nops = 0
  /\ IdleRun
  /\ arg \in FuzzyListings
  /\ ret = NoRet

CallComputeFuzzyIdentity ==
  /\ ~ret.called
  /\ ret' = [called |-> TRUE, identity |-> FuzzyIdentityOf(arg)]
  /\ UNCHANGED <<storeVars, linkVars, runVars, arg>>

NextFuzzy == CallComputeFuzzyIdentity

SpecFuzzy == InitFuzzy /\ [][NextFuzzy]_vars

(* the factors the data of a listing provides *)
ProvidedFactors(listing) ==
  (IF listing.latitude # Null /\ listing.longitude # Null THEN {"geo"} ELSE {})
  \cup (IF \E i \in DOMAIN listing.address : IsFiveDigits(listing.address[i])
        THEN {"zip"} ELSE {})
  \cup (IF \E i \in DOMAIN listing.address :
             IsDigits(listing.address[i]) /\ ~IsFiveDigits(listing.address[i])
        THEN {"house number"} ELSE {})
  \cup (IF listing.size # Null THEN {"size bucket"} ELSE {})
  \cup (IF listing.rooms # Null THEN {"rooms"} ELSE {})
  \cup (IF listing.price # Null THEN {"price bucket"} ELSE {})

(* C20: computeFuzzyIdentity returns null for every listing that provides *)
(* fewer than 4 of the six factors geo, zip, house number, size bucket,   *)
(* rooms and price bucket, and a non-null identity for every listing that *)
(* provides at least 4.                                                   *)
C20_NullIffFewerThanFour ==
  ret.called =>
     (ret.identity = NoIdentity <=> Cardinality(ProvidedFactors(arg)) < 4)

(* ---------------------------------------------------------------------- *)
(* Specification of runs of one job while the user deletes listings       *)
(* ---------------------------------------------------------------------- *)
DeletedRuns == 2      \* runs per behaviour
DeletedHashes == 2    \* listings the providers offer
DeletedBatch == 2     \* listings per fetch

(* listings with an address; with the coordinates of the geocoder those   *)
(* with 2 more factors have no fuzzy identity, those with 4 have one      *)
DeletedEnv ==
  [runs |-> DeletedRuns,
   configs |-> {<<"jobA", "P1">>},
   raws |-> {RawListing(h, TRUE, n, Null) : h \in 1 .. DeletedHashes, n \in {2, 4}},
   maxBatch |-> DeletedBatch,
   url |-> {"ok"},
   keep |-> {TRUE},
   geo |-> {"coords"},
   details |-> {"none"},
   media |-> {"skip"},
   similar |-> {FALSE},
   send |-> {"ok"},
   tick |-> {1}]

(* the user deletes listings that are not deleted yet, at any moment the  *)
(* event loop is free                                                     *)
DeleteListings ==
  /\ \E ids \in (SUBSET Ids(listings)) \ {{}} :
        /\ \A i \in ids : ~listings[i].deleted
        /\ listings' = deleteListingsById(listings, ids)
  /\ UNCHANGED <<links, linkVars, runVars, auxVars>>

NextDeleted == Run(DeletedEnv) \/ DeleteListings

SpecDeleted == InitRuns /\ [][NextDeleted]_vars

(* C14: a listing whose manuallyDeleted flag is set is never returned by  *)
(* the identity lookups of version detection (strict property identity   *)
(* and fuzzy identity): when version detection has run, no listing of the *)
(* batch has a tombstoned listing as its previousVersionId.               *)
C14_NoLinkToTombstone ==
  [][(pc = "detect" /\ pc' = "save") =>
        \A k \in DOMAIN batch' :
           batch'[k].prev # Null => ~listings[batch'[k].prev].deleted]_vars

(* ---------------------------------------------------------------------- *)
(* Specification of the price history over runs and manual links         *)
(* ---------------------------------------------------------------------- *)
HistoryRuns == 2      \* runs per behaviour
HistoryHashes == 2    \* listings the providers offer
HistoryBatch == 1     \* listings per fetch
HistoryOps == 1       \* manual links per behaviour

(* Date.now() counts milliseconds: a run can start and detect versions in *)
(* the millisecond in which the run before it stored its listings         *)
HistoryEnv ==
  [runs |-> HistoryRuns,
   configs |-> {<<"jobA", "P1">>, <<"jobA", "P2">>},
   raws |-> {RawListing(h, TRUE, n, pub) :
               h \in 1 .. HistoryHashes, n \in {2, 4}, pub \in 0 .. MaxPub},
   maxBatch |-> HistoryBatch,
   url |-> {"ok"},
   keep |-> {TRUE},
   geo |-> {"coords"},
   details |-> {"none"},
   media |-> {"skip"},
   similar |-> {FALSE},
   send |-> {"ok"},
   tick |-> {0, 1}]

(* the user links two stored listings between two runs *)
LinkStored ==
  /\ pc \in {"idle", "done"}
  /\ nops < HistoryOps
  /\ nops' = nops + 1
  /\ \E a \in Ids(listings), b \in Ids(listings) :
       \E o \in createManualLink(listings, links, a, b) :
          /\ listings' = o[1]
          /\ links' = o[2]
          /\ res' = o[3]
  /\ UNCHANGED <<runVars, auxVars>>

NextHistory == Run(HistoryEnv) \/ LinkStored

SpecHistory == InitRuns /\ [][NextHistory]_vars

NoTwoWithSameDate(h) == \A i \in DOMAIN h, j \in DOMAIN h : h[i].date = h[j].date => i = j
AscendingByDate(h) == \A i \in DOMAIN h, j \in DOMAIN h : i < j => h[i].date <= h[j].date

(* C15: for every listing, after any number of automatic or manual        *)
(* version links, priceHistory contains no two entries with the same date *)
(* and is sorted ascending by date.                                       *)
C15_PriceHistoryUniqueAndSorted ==
  /\ \A i \in Ids(listings) :
        NoTwoWithSameDate(listings[i].hist) /\ AscendingByDate(listings[i].hist)
  /\ \A k \in DOMAIN batch :
        NoTwoWithSameDate(batch[k].hist) /\ AscendingByDate(batch[k].hist)

(* ---------------------------------------------------------------------- *)
(* Specification of detectVersion on a later listing of a stored property *)
(* ---------------------------------------------------------------------- *)
MaxCreated == 2       \* latest created_at of the stored listing
MaxLater == 2         \* latest Date.now() of the detection, after created_at

AddressVariants == {MusterstrFull, MusterstrasseFull, MusterstrasseShort, MusterstrShort}

(* listing X, fetched as listing 1, and listing Y, fetched as listing 2 *)
ScenarioListings(rid, price) ==
  {[normalize(RawListing(rid, TRUE, 2, Null)) EXCEPT !.address = a, !.size = z, !.price = price] :
     a \in AddressVariants, z \in {70, 75}}

(* the store after a run of jobA has detected and stored x at time t *)
StoredAlone(x, t) ==
  {storeListings(<< >>, "jobA", "P1", <<d>>, t) : d \in detectVersion(<< >>, x, "jobA", t)}

InitDetect ==
  /\ \E x \in ScenarioListings(1, 1200), y \in ScenarioListings(2, 1250),
        t \in 1 .. MaxCreated, d \in 1 .. MaxLater :
        /\ listings \in StoredAlone(x, t)
        /\ arg = [kind |-> "detectVersion", x |-> x, y |-> y]
        /\ now = t + d
  /\ links = {}
  /\ res = NoRes
  /\ nops = 0
  /\ runs = 0
  /\ pc = "idle"
  /\ job = "jobA"
  /\ provider = "P1"
  /\ batch = << >>
  /\ trace = << >>
  /\ err = NoErr
  /\ handled = 0
  /\ level = "none"
  /\ outcome = "none"
  /\ soft = NoSoft
  /\ found = NoFound
  /\ stored = NoStored
  /\ ret = NoRet

CallDetectVersion ==
  /\ ~ret.called
  /\ \E y \in detectVersion(listings, arg.y, job, now) :
        ret' = [called |-> TRUE, listing |-> y]
  /\ UNCHANGED <<storeVars, linkVars, runVars, arg>>

NextDetect == CallDetectVersion

SpecDetect == InitDetect /\ [][NextDetect]_vars

(* listing X and listing Y of scenario A *)
ScenarioA ==
  /\ arg.x.address = MusterstrFull /\ arg.x.size = 70 /\ arg.x.price = 1200
  /\ arg.y.address = MusterstrasseShort /\ arg.y.size = 70 /\ arg.y.price = 1250

(* C19: Scenario A: with listing X ("Musterstr. 12, 10115 Berlin", size   *)
(* 70, price 1200) persisted in a job, detectVersion on a later listing Y *)
(* of the same job ("Musterstraße 12", size 70, price 1250) sets          *)
(* Y.previousVersionId = X.id and Y.priceHistory = [(X.createdAt, 1200),  *)
(* (now, 1250)].                                                          *)
C19_ScenarioALinksYToX ==
  (ret.called /\ ScenarioA) =>
     /\ ret.listing.prev = 1
     /\ ret.listing.hist = <<[date |-> listings[1].created, price |-> 1200],
                             [date |-> now, price |-> 1250]>>

(* ---------------------------------------------------------------------- *)
(* Specification of runs on a store some migrations have not reached      *)
(* ---------------------------------------------------------------------- *)
SchemaRuns == 2       \* runs per behaviour
SchemaHashes == 2     \* listings the providers offer
SchemaBatch == 2      \* listings per fetch

(* the identity and version columns of listings no migration has added *)
Unmigrated == {}

(* the columns the first form of migration 8 adds *)
Migration8First == {"property_identity", "previous_version_id"}

(* the columns migration 8 adds *)
Migration8 ==
  Migration8First \cup {"change_set", "manually_deleted", "job_name", "published_at"}

(* the stores that lack identity or version columns *)
Schemas == {Unmigrated, Migration8First, Migration8}

(* the SELECT names property_identity *)
CanFindByPropertyIdentity(cols) == "property_identity" \in cols

(* the SELECT names fuzzy_identity and manually_deleted *)
CanFindByFuzzyIdentities(cols) == {"fuzzy_identity", "manually_deleted"} \subseteq cols

(* the extended INSERT names these columns whenever property_identity exists *)
ExtendedInsertColumns == {"job_name", "property_identity", "previous_version_id", "change_set"}

(* detectVersion: 'no such column' is caught after propertyIdentity is set *)
detectVersionOn(cols, L, it, jobId, t) ==
  IF computePropertyIdentity(it) = NoPropertyIdentity
  THEN {it}
  ELSE IF CanFindByPropertyIdentity(cols)
       THEN detectVersion(L, it, jobId, t)
       ELSE {[it EXCEPT !.pid = computePropertyIdentity(it)]}

(* listings.map((listing) => detectVersion(listing, jobId)) *)
MapDetectVersion(cols, L, B, jobId, t, idx) ==
  {s \in [idx -> UNION {detectVersionOn(cols, L, B[i], jobId, t) : i \in idx}] :
     \A i \in idx : s[i] \in detectVersionOn(cols, L, B[i], jobId, t)}

(* detectVersionsWithBatchAwareness on a store with the columns cols *)
detectVersionsOn(cols, L, B0, jobId, t) ==
  IF B0 = << >>
  THEN {<<L, B0>>}
  ELSE
  LET B == WithIdentities(B0)
      F == {B[i].fuzzy : i \in DOMAIN B} \ {Null}
      noIdentity == {i \in DOMAIN B : B[i].fuzzy = Null}
  IN IF F # {} /\ ~CanFindByFuzzyIdentities(cols)
     THEN {<<L, s>> : s \in MapDetectVersion(cols, L, B, jobId, t, DOMAIN B)}
     ELSE {<<[r \in Ids(L) |-> IF "is_superseded" \in cols /\ \E f \in DOMAIN m : m[f] = r
                               THEN markListingAsSuperseded(L, r)[r]
                               ELSE L[r]],
             [i \in DOMAIN B |-> IF i \in noIdentity THEN s[i] ELSE LinkInGroup(L, B, m, i, t)]>> :
             m \in findListingsByFuzzyIdentities(L, jobId, F),
             s \in MapDetectVersion(cols, L, B, jobId, t, noIdentity)}

(* the parameters the INSERT of storeListings binds *)
NewRowOn(cols, jobId, providerId, item, t) ==
  LET hasExtendedColumns == "property_identity" \in cols
      hasLifecycleColumns == hasExtendedColumns /\ "published_at" \in cols
      hasFuzzyIdentity == hasExtendedColumns /\ "fuzzy_identity" \in cols
  IN [NewRow(jobId, providerId, item, t) EXCEPT
        !.pid = IF hasExtendedColumns THEN @ ELSE NoPropertyIdentity,
        !.prev = IF hasExtendedColumns THEN @ ELSE Null,
        !.hist = IF hasExtendedColumns THEN @ ELSE << >>,
        !.pub = IF hasLifecycleColumns THEN @ ELSE Null,
        !.fuzzy = IF hasFuzzyIdentity THEN @ ELSE Null]

RECURSIVE InsertRowsOn(_, _, _, _, _, _)
InsertRowsOn(cols, L, jobId, providerId, B, t) ==
  IF B = << >>
  THEN L
  ELSE InsertRowsOn(cols, InsertRow(L, NewRowOn(cols, jobId, providerId, Head(B), t)),
                    jobId, providerId, Tail(B), t)

(* db.prepare of the extended INSERT throws when one of its columns is missing *)
StoreListingsThrows(cols, B) ==
  B # << >> /\ "property_identity" \in cols /\ ~(ExtendedInsertColumns \subseteq cols)

storeListingsOn(cols, L, jobId, providerId, B, t) ==
  IF StoreListingsThrows(cols, B) THEN L ELSE InsertRowsOn(cols, L, jobId, providerId, B, t)

(* the UPDATE of previous_version_id alone, is_superseded being absent *)
ResolveOnePrev(L, cur, prevId) ==
  IF cur # Null /\ prevId # Null THEN [L EXCEPT ![cur].prev = prevId] ELSE L

RECURSIVE ResolvePrevFrom(_, _, _, _)
ResolvePrevFrom(L, L0, jobId, B) ==
  IF B = << >>
  THEN L
  ELSE ResolvePrevFrom(ResolveOnePrev(L, IdOfHash(L0, jobId, Head(B).hash),
                                         IdOfHash(L0, jobId, Head(B).bprev)),
                       L0, jobId, Tail(B))

resolveBatchVersionChainsOn(cols, L, jobId, B) ==
  IF "previous_version_id" \notin cols
  THEN L
  ELSE IF "is_superseded" \in cols
       THEN resolveBatchVersionChains(L, jobId, B)
       ELSE ResolvePrevFrom(L, L, jobId, SelectSeq(B, LAMBDA it : it.bprev # Null))

(* the UPDATE names fuzzy_identity once is_superseded exists *)
MarkAllVersionsThrows(cols, B) ==
  /\ \E i \in DOMAIN B : B[i].fuzzy # Null
  /\ "is_superseded" \in cols
  /\ "fuzzy_identity" \notin cols

SaveResultOn(cols, L, jobId, providerId, B, t) ==
  LET L1 == storeListingsOn(cols, L, jobId, providerId, B, t)
      L2 == resolveBatchVersionChainsOn(cols, L1, jobId, B)
      F == {B[i].fuzzy : i \in DOMAIN B} \ {Null}
  IN [throws |-> StoreListingsThrows(cols, B) \/ MarkAllVersionsThrows(cols, B),
      after |-> L1,
      final |-> IF "is_superseded" \in cols
                THEN MarkGroups(L2, jobId, B, Ascending(F))
                ELSE L2]

_detectVersionsOn ==
  /\ pc = "detect"
  /\ \E o \in detectVersionsOn(arg.cols, listings, batch, job, now) :
        /\ listings' = o[1]
        /\ Resolves("detect", o[2])
  /\ UNCHANGED <<links, res, nops, auxVars, now, runs, job, provider, handled, level,
                 outcome, soft, found, stored>>

_saveOn ==
  /\ pc = "save"
  /\ LET r == SaveResultOn(arg.cols, listings, job, provider, batch, now)
     IN IF r.throws
        THEN /\ listings' = IF StoreListingsThrows(arg.cols, batch) THEN listings ELSE r.after
             /\ stored' = stored
             /\ Rejects("save", "Error")
        ELSE /\ listings' = r.final
             /\ stored' = [ran |-> TRUE, before |-> listings, after |-> r.after,
                           items |-> batch]
             /\ Resolves("save", batch)
  /\ UNCHANGED <<links, res, nops, auxVars, now, runs, job, provider, handled, level,
                 outcome, soft, found>>

SchemaEnv ==
  [runs |-> SchemaRuns,
   configs |-> {<<"jobA", "P1">>, <<"jobA", "P2">>},
   raws |-> {RawListing(h, TRUE, n, Null) : h \in 1 .. SchemaHashes, n \in {2, 4}},
   maxBatch |-> SchemaBatch,
   url |-> {"ok"},
   keep |-> {TRUE},
   geo |-> {"coords"},
   details |-> {"none"},
   media |-> {"skip"},
   similar |-> {FALSE},
   send |-> {"ok"},
   tick |-> {1}]

InitSchema ==
  /\ listings = << >>
  /\ links = {}
  /\ res = NoRes
  /\ nops = 0
  /\ IdleRun
  /\ \E cols \in Schemas : arg = [kind |-> "schema", cols |-> cols]
  /\ ret = NoRet

NextSchema ==
  \/ Execute(SchemaEnv)
  \/ _fetchListingsWithKnownHashes(SchemaEnv)
  \/ _normalize
  \/ _filter(SchemaEnv)
  \/ _findNew
  \/ _geocode(SchemaEnv)
  \/ _enrichWithDetails(SchemaEnv)
  \/ _downloadMedia(SchemaEnv)
  \/ _detectVersionsOn
  \/ _saveOn
  \/ _calculateDistance
  \/ _filterBySimilarListings(SchemaEnv)
  \/ _notify(SchemaEnv)
  \/ _handleError

SpecSchema == InitSchema /\ [][NextSchema]_vars

(* the run at hand found new listings and has ended *)
RunWithNewListingsEnded == pc = "done" /\ found.ran /\ found.hashes \ found.known # {}

(* C17: when the store lacks identity or version columns (not yet         *)
(* migrated, fully or partially), a run with new listings still persists  *)
(* and notifies them without version links and does not end in the        *)
(* failure state.                                                         *)
C17_UnmigratedRunPersistsAndNotifies ==
  RunWithNewListingsEnded =>
     /\ outcome = "notified"
     /\ \A h \in found.hashes \ found.known :
           /\ HasHash(listings, job, h)
           /\ listings[IdOfHash(listings, job, h)].prev = Null

(* ---------------------------------------------------------------------- *)
(* Specification of two concurrent runs of different jobs on one store    *)
(* ---------------------------------------------------------------------- *)
ConcHashes == 2       \* listings the providers offer
ConcBatch == 2        \* listings per fetch

(* the listings a run holds when it reaches _findNew: normalized, and     *)
(* geocoded once they are new                                             *)
ConcItems ==
  {GeocodeItem(normalize(RawListing(h, TRUE, n, Null)), "coords") :
     h \in 1 .. ConcHashes, n \in {2, 4}}

(* an earlier listing of the property, stored by both jobs *)
SeedBatch ==
  WithIdentities(<<GeocodeItem(normalize(RawListing(ConcHashes + 1, TRUE, 4, Null)), "coords")>>)

ConcStores ==
  {<< >>, storeListings(storeListings(<< >>, "jobA", "P1", SeedBatch, 1), "jobB", "P1", SeedBatch, 1)}

ConcRun(jobId, B) == [job |-> jobId, provider |-> "P1", pc |-> "findNew", batch |-> B]

(* the stages of a run that read or write the store; the clock readings   *)
(* of a run are part of its input                                         *)
FindNewOf(L, run) ==
  LET hashes == getKnownListingHashesForJobAndProvider(L, run.job, run.provider)
      newListings == SelectSeq(run.batch, LAMBDA o : o.hash \notin hashes)
  IN IF newListings = << >>
     THEN <<L, [run EXCEPT !.pc = "done"]>>
     ELSE <<L, [run EXCEPT !.pc = "detect", !.batch = newListings]>>

DetectOf(L, run, t) ==
  {<<o[1], [run EXCEPT !.pc = "save", !.batch = o[2]]>> :
     o \in detectVersionsWithBatchAwareness(L, run.batch, run.job, t)}

SaveOf(L, run, t) ==
  <<SaveResult(L, run.job, run.provider, run.batch, t).final, [run EXCEPT !.pc = "distance"]>>

DistanceOf(L, run) ==
  IF run.batch # << >> /\ HasHome(run.job)
  THEN <<DistanceRows(L, run.batch), [run EXCEPT !.pc = "done", !.batch = DistanceBatch(run.batch)]>>
  ELSE <<L, [run EXCEPT !.pc = "done"]>>

(* the results <<rows, run>> of the next store stage of the run *)
StageOf(L, run, t) ==
  CASE run.pc = "findNew" -> {FindNewOf(L, run)}
    [] run.pc = "detect" -> DetectOf(L, run, t)
    [] run.pc = "save" -> {SaveOf(L, run, t)}
    [] run.pc = "distance" -> {DistanceOf(L, run)}
    [] OTHER -> {}

(* the stores a whole run can leave when nothing else runs *)
RECURSIVE RunAlone(_, _, _)
RunAlone(L, run, t) ==
  IF run.pc = "done" THEN {L} ELSE UNION {RunAlone(o[1], o[2], t) : o \in StageOf(L, run, t)}

(* the stores the two runs can leave when one runs after the other *)
SerialStores(L, input, t) ==
  UNION {UNION {RunAlone(L1, input[3 - r], t) : L1 \in RunAlone(L, input[r], t)} : r \in {1, 2}}

InitConcurrent ==
  /\ listings \in ConcStores
  /\ links = {}
  /\ res = NoRes
  /\ nops = 0
  /\ now = 2
  /\ runs = 0
  /\ pc = "idle"
  /\ job = "jobA"
  /\ provider = "P1"
  /\ batch = << >>
  /\ trace = << >>
  /\ err = NoErr
  /\ handled = 0
  /\ level = "none"
  /\ outcome = "none"
  /\ soft = NoSoft
  /\ found = NoFound
  /\ stored = NoStored
  /\ \E B1 \in BatchesOf(ConcItems, ConcBatch), B2 \in BatchesOf(ConcItems, ConcBatch) :
        LET input == <<ConcRun("jobA", B1), ConcRun("jobB", B2)>>
        IN arg = [kind |-> "runs", start |-> listings, mixed |-> FALSE, run |-> input,
                  serial |-> SerialStores(listings, input, now)]
  /\ ret = NoRet

(* the then-chain of run r calls its handler s, one of those that use the store *)
RunStage(r, s) ==
  /\ arg.run[r].pc = s
  /\ \E o \in StageOf(listings, arg.run[r], now) :
        /\ listings' = o[1]
        /\ arg' = [arg EXCEPT !.run[r] = o[2],
                              !.mixed = @ \/ arg.run[3 - r].pc \in {"detect", "save", "distance"}]
  /\ UNCHANGED <<links, linkVars, runVars, ret>>

NextConcurrent ==
  \/ \E r \in {1, 2} : RunStage(r, "findNew")
  \/ \E r \in {1, 2} : RunStage(r, "detect")
  \/ \E r \in {1, 2} : RunStage(r, "save")
  \/ \E r \in {1, 2} : RunStage(r, "distance")

SpecConcurrent == InitConcurrent /\ [][NextConcurrent]_vars

BothDone == arg.run[1].pc = "done" /\ arg.run[2].pc = "done"

(* the step of run r leaves every row of another job as it was *)
NoForeignWrite(r) ==
  arg'.run[r] # arg.run[r] =>
     \A i \in Ids(listings) :
        listings[i].job # arg.run[r].job => i \in Ids(listings') /\ listings'[i] = listings[i]

(* C18: for two runs of different jobs executing concurrently on the same *)
(* store, under any interleaving at their suspension points, neither run  *)
(* writes a listing row belonging to the other job and the final store    *)
(* state equals the state produced by executing the two runs one after    *)
(* the other.                                                             *)
C18_ConcurrentRunsAreSerializable ==
  [][/\ \A r \in {1, 2} : NoForeignWrite(r)
     /\ BothDone' => listings' \in arg'.serial]_vars

(* both runs have ended after interleaved stages, each has stored a       *)
(* listing and each has linked one to the earlier listing of its job      *)
C18_Witness ==
  /\ BothDone
  /\ arg.mixed
  /\ \A j \in {"jobA", "jobB"} :
        \E i \in Ids(listings) :
           listings[i].job = j /\ i \notin Ids(arg.start) /\ listings[i].prev # Null

(* ---------------------------------------------------------------------- *)
(* addressNormalizer.js, geoMatcher.js and the scorer of                   *)
(* enhancedSimilarityScorer.js                                            *)
(* ---------------------------------------------------------------------- *)
(* a field of a listing: null, a number, or a string that parseFloat      *)
(* reads as v (NaN for a string without digits)                           *)
Nul == [kind |-> "null", v |-> 0]
Num(v) == [kind |-> "number", v |-> v]
Str(v) == [kind |-> "string", v |-> v]

(* parseSize, parseRooms, parsePrice: a number is returned as it is *)
parseNumber(x) ==
  IF x.kind = "null"
  THEN Nul
  ELSE IF x.kind = "number"
       THEN x
       ELSE IF x.v = NaN \/ x.v <= 0 THEN Nul ELSE Num(x.v)

Abs(x) == IF x < 0 THEN -x ELSE x

(* Math.abs(a - b) / ((a + b) / 2) <= pct / 100 on JS numbers: the        *)
(* quotient is NaN or Infinity for a + b = 0 and negative for a + b < 0   *)
PercentDiffWithin(a, b, pct) ==
  /\ a # NaN /\ b # NaN
  /\ a + b # 0
  /\ a + b < 0 \/ 200 * Abs(a - b) <= pct * (a + b)

FactorWeights == [address |-> 40, size |-> 20, geo |-> 20, rooms |-> 10, price |-> 10]

(* the words of street names, their lengths, and t1.includes(t2) *)
WordLen(w) == CASE w = "haupt" -> 5 [] w = "strasse" -> 7 [] w = "hauptstrasse" -> 12

WordIncludes(t1, t2) == t1 = t2 \/ (t1 = "hauptstrasse" /\ t2 \in {"haupt", "strasse"})

RECURSIVE StrLen(_)
StrLen(s) == IF Len(s) = 1 THEN WordLen(s[1]) ELSE WordLen(Head(s)) + 1 + StrLen(Tail(s))

(* s1.includes(s2) for strings given as their words *)
StringIncludes(s1, s2) ==
  \/ \E i \in 0 .. Len(s1) - Len(s2) : \A k \in 1 .. Len(s2) : s1[i + k] = s2[k]
  \/ Len(s1) = 1 /\ Len(s2) = 1 /\ WordIncludes(s1[1], s2[1])

Min(a, b) == IF a <= b THEN a ELSE b

(* fuzzyStringMatch as the fraction <<numerator, denominator>> *)
fuzzyStringMatch(str1, str2) ==
  IF str1 = << >> \/ str2 = << >>
  THEN <<0, 1>>
  ELSE IF str1 = str2
       THEN <<1, 1>>
       ELSE IF StringIncludes(str1, str2) \/ StringIncludes(str2, str1)
            THEN <<Min(StrLen(str1), StrLen(str2)), Max(StrLen(str1), StrLen(str2))>>
            ELSE <<Cardinality({i \in DOMAIN str1 :
                                  \E j \in DOMAIN str2 :
                                     WordIncludes(str1[i], str2[j]) \/ WordIncludes(str2[j], str1[i])}),
                   Max(Len(str1), Len(str2))>>

(* an address by the parts parseAddress finds in it; text: the string is  *)
(* not empty                                                              *)
Address(zip, city, street, house) ==
  [text |-> TRUE, zipCode |-> zip, city |-> city, street |-> street, houseNumber |-> house]

NoAddress == [text |-> FALSE, zipCode |-> 0, city |-> "", street |-> << >>, houseNumber |-> << >>]

HouseNumberPoints(h1, h2) == IF h1 = h2 THEN 20 ELSE IF h1[1] = h2[1] THEN 10 ELSE 0

compareAddressesTwice(parsed1, parsed2) ==
    (IF parsed1.zipCode # 0 /\ parsed1.zipCode = parsed2.zipCode THEN 25 ELSE 0)
  + (IF parsed1.city # "" /\ parsed1.city = parsed2.city THEN 15 ELSE 0)
  + (IF parsed1.street # << >> /\ parsed2.street # << >>
     THEN RoundDiv(fuzzyStringMatch(parsed1.street, parsed2.street)[1] * 40,
                   fuzzyStringMatch(parsed1.street, parsed2.street)[2])
     ELSE 0)
  + (IF parsed1.houseNumber # << >> /\ parsed2.houseNumber # << >>
     THEN 20 + HouseNumberPoints(parsed1.houseNumber, parsed2.houseNumber)
     ELSE 0)

(* the score of compareAddresses *)
compareAddresses(parsed1, parsed2) ==
    (IF parsed1.zipCode # 0 /\ parsed1.zipCode = parsed2.zipCode THEN 25 ELSE 0)
  + (IF parsed1.city # "" /\ parsed1.city = parsed2.city THEN 15 ELSE 0)
  + (IF parsed1.street # << >> /\ parsed2.street # << >>
     THEN RoundDiv(fuzzyStringMatch(parsed1.street, parsed2.street)[1] * 40,
                   fuzzyStringMatch(parsed1.street, parsed2.street)[2])
     ELSE 0)
  + (IF parsed1.houseNumber # << >> /\ parsed2.houseNumber # << >>
     THEN HouseNumberPoints(parsed1.houseNumber, parsed2.houseNumber)
     ELSE 0)

calculateAddressScore(listing1, listing2) ==
  IF ~listing1.address.text \/ ~listing2.address.text
  THEN 0
  ELSE RoundDiv(compareAddresses(listing1.address, listing2.address) * FactorWeights.address, 100)

calculateSizeScore(listing1, listing2) ==
  LET size1 == parseNumber(listing1.size)
      size2 == parseNumber(listing2.size)
  IN IF size1 = Nul \/ size2 = Nul
     THEN 0
     ELSE IF PercentDiffWithin(size1.v, size2.v, 5)
          THEN FactorWeights.size
          ELSE IF PercentDiffWithin(size1.v, size2.v, 10)
               THEN RoundDiv(FactorWeights.size * 8, 10)
               ELSE IF PercentDiffWithin(size1.v, size2.v, 15)
                    THEN RoundDiv(FactorWeights.size * 5, 10)
                    ELSE 0

(* coordinates are metres along one meridian; the range check of          *)
(* isValidCoordinate is that of the latitude                              *)
MaxLatitude == 10000000

isValidCoordinate(lat) ==
  lat.kind = "number" /\ lat.v # NaN /\ lat.v >= -MaxLatitude /\ lat.v <= MaxLatitude

(* PROXIMITY_THRESHOLDS over haversineDistance *)
calculateGeoScore(lat1, lat2) ==
  IF ~isValidCoordinate(lat1) \/ ~isValidCoordinate(lat2)
  THEN 0
  ELSE LET distance == Abs(lat1.v - lat2.v)
       IN IF distance <= 30 THEN 20
          ELSE IF distance <= 50 THEN 15
          ELSE IF distance <= 100 THEN 10
          ELSE IF distance <= 200 THEN 5
          ELSE 0

(* room counts are given in half rooms *)
calculateRoomScore(listing1, listing2) ==
  LET rooms1 == parseNumber(listing1.rooms)
      rooms2 == parseNumber(listing2.rooms)
  IN IF rooms1 = Nul \/ rooms2 = Nul
     THEN 0
     ELSE IF rooms1.v = NaN \/ rooms2.v = NaN
          THEN 0
          ELSE IF rooms1.v = rooms2.v
               THEN FactorWeights.rooms
               ELSE IF Abs(rooms1.v - rooms2.v) <= 1
                    THEN RoundDiv(FactorWeights.rooms * 8, 10)
                    ELSE IF Abs(rooms1.v - rooms2.v) <= 2
                         THEN RoundDiv(FactorWeights.rooms * 5, 10)
                         ELSE 0

calculatePriceScore(listing1, listing2) ==
  LET price1 == parseNumber(listing1.price)
      price2 == parseNumber(listing2.price)
  IN IF price1 = Nul \/ price2 = Nul
     THEN 0
     ELSE IF PercentDiffWithin(price1.v, price2.v, 5)
          THEN FactorWeights.price
          ELSE IF PercentDiffWithin(price1.v, price2.v, 10)
               THEN RoundDiv(FactorWeights.price * 8, 10)
               ELSE IF PercentDiffWithin(price1.v, price2.v, 20)
                    THEN RoundDiv(FactorWeights.price * 5, 10)
                    ELSE 0

(* score and factors[..].points of the result of computeSimilarity *)
computeSimilarity(listing1, listing2) ==
  LET factors == [address |-> calculateAddressScore(listing1, listing2),
                  size |-> calculateSizeScore(listing1, listing2),
                  geo |-> calculateGeoScore(listing1.latitude, listing2.latitude),
                  rooms |-> calculateRoomScore(listing1, listing2),
                  price |-> calculatePriceScore(listing1, listing2)]
  IN [score |-> factors.address + factors.size + factors.geo + factors.rooms + factors.price,
      factors |-> factors]

(* ---------------------------------------------------------------------- *)
(* Specification of computeSimilarity over pairs of listings              *)
(* ---------------------------------------------------------------------- *)
SimAddresses ==
  {NoAddress,
   Address(10115, "berlin", <<"haupt", "strasse">>, <<12>>),
   Address(10115, "berlin", <<"hauptstrasse">>, <<12, 14>>),
   Address(0, "", <<"haupt">>, << >>)}

SimListing(id, hash, address, size, latitude, rooms, price) ==
  [id |-> id, hash |-> hash, address |-> address, size |-> size, latitude |-> latitude,
   rooms |-> rooms, price |-> price]

SimListings ==
  {SimListing(1, HashOf(1), a, s, g, r, p) :
     a \in SimAddresses,
     s \in {Nul, Num(-70), Num(70), Str(76)},
     g \in {Nul, Num(NaN), Num(10), Num(60)},
     r \in {Nul, Num(4), Str(5)},
     p \in {Nul, Num(1000), Str(1200)}}

InitSimilarity ==
  /\ listings = << >>
  /\ links = {}
  /\ res = NoRes
  /\ nops = 0
  /\ IdleRun
  /\ \E a \in SimListings, b \in SimListings : arg = [kind |-> "computeSimilarity", a |-> a, b |-> b]
  /\ ret = NoRet

CallComputeSimilarity ==
  /\ ~ret.called
  /\ ret' = [called |-> TRUE, result |-> computeSimilarity(arg.a, arg.b)]
  /\ UNCHANGED <<storeVars, linkVars, runVars, arg>>

NextSimilarity == CallComputeSimilarity

SpecSimilarity == InitSimilarity /\ [][NextSimilarity]_vars

(* C21: for all listing pairs (a, b), including pairs with missing or     *)
(* malformed fields, computeSimilarity(a, b).score lies in [0, 100] and   *)
(* equals the sum of five non-negative factor contributions bounded by    *)
(* their weights: address <= 40, size <= 20, geo <= 20, rooms <= 10,      *)
(* price <= 10.                                                           *)
C21_ScoreBounds ==
  ret.called =>
     LET f == ret.result.factors
     IN /\ ret.result.score >= 0 /\ ret.result.score <= 100
        /\ ret.result.score = f.address + f.size + f.geo + f.rooms + f.price
        /\ f.address >= 0 /\ f.address <= 40
        /\ f.size >= 0 /\ f.size <= 20
        /\ f.geo >= 0 /\ f.geo <= 20
        /\ f.rooms >= 0 /\ f.rooms <= 10
        /\ f.price >= 0 /\ f.price <= 10

(* a pair with negative sizes and a missing price that scores on the      *)
(* other four factors                                                     *)
C21_Witness ==
  /\ ret.called
  /\ arg.a.size = Num(-70) /\ arg.b.price = Nul
  /\ ret.result.factors.address = 40 /\ ret.result.factors.geo = 20
  /\ ret.result.factors.rooms = 10 /\ ret.result.score = 90

(* ---------------------------------------------------------------------- *)
(* Specification of findSimilarListings over small candidate lists        *)
(* ---------------------------------------------------------------------- *)
MaxCandidates == 3    \* length of the candidate array
MaxResults == 2       \* largest maxResults option

(* results.sort((a, b) => b.similarity.score - a.similarity.score): a     *)
(* stable sort, so an entry goes behind the entries of the same score     *)
RECURSIVE InsertByScore(_, _)
InsertByScore(rs, e) ==
  IF rs = << >>
  THEN <<e>>
  ELSE IF Head(rs).score >= e.score
       THEN <<Head(rs)>> \o InsertByScore(Tail(rs), e)
       ELSE <<e>> \o rs

RECURSIVE SortByScore(_)
SortByScore(rs) ==
  IF rs = << >> THEN << >> ELSE InsertByScore(SortByScore(SubSeq(rs, 1, Len(rs) - 1)), rs[Len(rs)])

(* the loop over the candidates: the results before the sort *)
SimilarResults(targetListing, candidates, minScore) ==
  LET kept == SelectSeq(candidates,
                        LAMBDA c : /\ ~(c.id = targetListing.id \/ c.hash = targetListing.hash)
                                   /\ computeSimilarity(targetListing, c).score >= minScore)
  IN [k \in DOMAIN kept |->
        [listing |-> kept[k], score |-> computeSimilarity(targetListing, kept[k]).score]]

findSimilarListingsUnsorted(targetListing, candidates, minScore, maxResults) ==
  LET results == SimilarResults(targetListing, candidates, minScore)
  IN SubSeq(results, 1, Min(maxResults, Len(results)))

findSimilarListings(targetListing, candidates, minScore, maxResults) ==
  LET results == SortByScore(SimilarResults(targetListing, candidates, minScore))
  IN SubSeq(results, 1, Min(maxResults, Len(results)))

(* stored listings of one property: the target, a row of its hash in      *)
(* another job, and rows that differ from it in size, price and address   *)
FindAddress == Address(10115, "berlin", <<"hauptstrasse">>, <<12>>)

FindTarget == SimListing(1, HashOf(1), FindAddress, Num(70), Num(10), Num(4), Num(1000))

FindCandidates ==
  {FindTarget,
   SimListing(2, HashOf(1), FindAddress, Num(70), Num(10), Num(4), Num(1000)),
   SimListing(3, HashOf(3), FindAddress, Num(70), Num(10), Num(4), Num(1000)),
   SimListing(4, HashOf(4), FindAddress, Num(76), Num(10), Num(4), Num(1000)),
   SimListing(5, HashOf(5), FindAddress, Num(76), Num(10), Num(4), Num(1000)),
   SimListing(6, HashOf(6), NoAddress, Nul, Num(10), Num(4), Nul)}

InitFind ==
  /\ listings = << >>
  /\ links = {}
  /\ res = NoRes
  /\ nops = 0
  /\ IdleRun
  /\ \E C \in BatchesOf(FindCandidates, MaxCandidates), minScore \in {30, 50, 97},
        maxResults \in 1 .. MaxResults :
        arg = [kind |-> "findSimilarListings", target |-> FindTarget, candidates |-> C,
               minScore |-> minScore, maxResults |-> maxResults]
  /\ ret = NoRet

CallFindSimilarListings ==
  /\ ~ret.called
  /\ ret' = [called |-> TRUE,
             result |-> findSimilarListings(arg.target, arg.candidates, arg.minScore,
                                            arg.maxResults)]
  /\ UNCHANGED <<storeVars, linkVars, runVars, arg>>

NextFind == CallFindSimilarListings

SpecFind == InitFind /\ [][NextFind]_vars

(* the positions of the candidates that are not the target and score at   *)
(* least minScore                                                         *)
Qualifying ==
  {i \in DOMAIN arg.candidates :
     /\ arg.candidates[i].id # arg.target.id
     /\ arg.candidates[i].hash # arg.target.hash
     /\ computeSimilarity(arg.target, arg.candidates[i]).score >= arg.minScore}

(* C22: findSimilarListings(target, candidates, {minScore, maxResults})   *)
(* returns exactly those candidates that are not the target itself (same  *)
(* id or same hash) and whose similarity score is at least minScore,      *)
(* ordered by non-increasing score and truncated to the first maxResults. *)
C22_FindSimilarListings ==
  ret.called =>
     LET R == ret.result
         C == arg.candidates
         ScoreAt(i) == computeSimilarity(arg.target, C[i]).score
     IN /\ Len(R) = Min(arg.maxResults, Cardinality(Qualifying))
        /\ \A k \in 1 .. Len(R) - 1 : R[k].score >= R[k + 1].score
        /\ \E f \in [DOMAIN R -> Qualifying] :
              /\ \A k, j \in DOMAIN R : f[k] = f[j] => k = j
              /\ \A k \in DOMAIN R : R[k].listing = C[f[k]] /\ R[k].score = ScoreAt(f[k])
              /\ \A i \in Qualifying :
                    (\A k \in DOMAIN R : f[k] # i) => \A k \in DOMAIN R : ScoreAt(i) <= R[k].score

(* three candidates qualify, the best of them in the middle, and the best *)
(* two are returned: the best first, then the first of the two equal ones *)
C22_Witness ==
  /\ ret.called
  /\ arg.maxResults = 2 /\ Cardinality(Qualifying) = 3
  /\ arg.candidates[1].id = 4 /\ arg.candidates[2].id = 3 /\ arg.candidates[3].id = 5
  /\ Len(ret.result) = 2
  /\ ret.result[1].score = 100 /\ ret.result[1].listing = arg.candidates[2]
  /\ ret.result[2].score = 96 /\ ret.result[2].listing = arg.candidates[1]

(* ---------------------------------------------------------------------- *)
(* Specification of a session of runs that share one similarity cache     *)
(* ---------------------------------------------------------------------- *)
CacheRuns == 2        \* runs per behaviour
CacheHashes == 2      \* listings the providers offer
CacheBatch == 2       \* listings per fetch

(* the key of the similarity cache: the title, address and price of the   *)
(* entry; the listings of the model carry the title of their property     *)
CacheKey(it) == <<it.address, it.price>>

(* checkAndAddEntry: was a near-duplicate seen, and the keys afterwards *)
checkAndAddEntry(keys, it) == [similar |-> CacheKey(it) \in keys, keys |-> keys \cup {CacheKey(it)}]

(* listings.filter(...) keeping every listing, the cache still being asked *)
RECURSIVE FilterKeepingAll(_, _)
FilterKeepingAll(B, keys) ==
  IF B = << >>
  THEN [kept |-> << >>, passed |-> << >>, keys |-> keys]
  ELSE LET c == checkAndAddEntry(keys, Head(B))
           r == FilterKeepingAll(Tail(B), c.keys)
       IN [kept |-> <<Head(B)>> \o r.kept,
           passed |-> IF c.similar THEN r.passed ELSE <<Head(B)>> \o r.passed,
           keys |-> r.keys]

(* listings.filter(...) of _filterBySimilarListings, in array order: the  *)
(* listings kept, those the cache reported as not similar, and the keys   *)
RECURSIVE FilterBySimilar(_, _)
FilterBySimilar(B, keys) ==
  IF B = << >>
  THEN [kept |-> << >>, passed |-> << >>, keys |-> keys]
  ELSE LET c == checkAndAddEntry(keys, Head(B))
           r == FilterBySimilar(Tail(B), c.keys)
       IN [kept |-> IF c.similar THEN r.kept ELSE <<Head(B)>> \o r.kept,
           passed |-> IF c.similar THEN r.passed ELSE <<Head(B)>> \o r.passed,
           keys |-> r.keys]

_filterBySimilarListingsOfSession ==
  /\ pc = "similarity"
  /\ LET r == FilterBySimilar(batch, arg.keys)
     IN /\ Resolves("similarity", r.kept)
        /\ arg' = [arg EXCEPT !.keys = r.keys,
                              !.passed = @ \cup {<<runs, r.passed[k].hash>> : k \in DOMAIN r.passed}]
  /\ UNCHANGED <<listings, links, res, nops, ret, now, runs, job, provider, handled, level,
                 outcome, soft, found, stored>>

(* _notify; dispatched: what notify.send was given, run by run *)
_notifyOfSession(E) ==
  /\ pc = "notify"
  /\ IF batch = << >>
     THEN Rejects("notify", NoNewListingsWarning) /\ outcome' = outcome /\ arg' = arg
     ELSE /\ arg' = [arg EXCEPT !.dispatched =
                        @ \o [k \in DOMAIN batch |->
                                [run |-> runs, provider |-> provider, hash |-> batch[k].hash,
                                 key |-> CacheKey(batch[k])]]]
          /\ \E sent \in E.send :
               IF sent = "ok"
               THEN Resolves("notify", batch) /\ outcome' = "notified"
               ELSE Rejects("notify", "Error") /\ outcome' = outcome
  /\ UNCHANGED <<listings, links, res, nops, ret, now, runs, job, provider, handled, level,
                 soft, found, stored>>

CacheEnv ==
  [runs |-> CacheRuns,
   configs |-> {<<"jobA", "P1">>, <<"jobA", "P2">>},
   raws |-> {RawListing(h, TRUE, 4, Null) : h \in 1 .. CacheHashes},
   maxBatch |-> CacheBatch,
   url |-> {"ok"},
   keep |-> {TRUE},
   geo |-> {"coords"},
   details |-> {"none"},
   media |-> {"skip"},
   similar |-> {FALSE},
   send |-> {"ok", "reject"},
   tick |-> {1}]

InitCache ==
  /\ listings = << >>
  /\ links = {}
  /\ res = NoRes
  /\ nops = 0
  /\ IdleRun
  /\ arg = [kind |-> "session", keys |-> {}, passed |-> {}, dispatched |-> << >>]
  /\ ret = NoRet

NextCache ==
  \/ Execute(CacheEnv)
  \/ _fetchListingsWithKnownHashes(CacheEnv)
  \/ _normalize
  \/ _filter(CacheEnv)
  \/ _findNew
  \/ _geocode(CacheEnv)
  \/ _enrichWithDetails(CacheEnv)
  \/ _downloadMedia(CacheEnv)
  \/ _detectVersions
  \/ _save
  \/ _calculateDistance
  \/ _filterBySimilarListingsOfSession
  \/ _notifyOfSession(CacheEnv)
  \/ _handleError

SpecCache == InitCache /\ [][NextCache]_vars

(* C23: a listing is dispatched for notification only if the similarity   *)
(* cache reported it as not a near-duplicate in this run, and of several  *)
(* listings with the same normalized (title, address, price) seen in one  *)
(* session at most one is dispatched.                                     *)
C23_DispatchedOncePerKey ==
  /\ \A k \in DOMAIN arg.dispatched :
        <<arg.dispatched[k].run, arg.dispatched[k].hash>> \in arg.passed
  /\ \A k, j \in DOMAIN arg.dispatched :
        arg.dispatched[k].key = arg.dispatched[j].key => k = j

(* the second run found two new listings and dispatched one of them, the  *)
(* other having the key of a listing the cache had seen                   *)
C23_Witness ==
  /\ runs = 2 /\ pc = "done" /\ outcome = "notified"
  /\ Cardinality(found.hashes \ found.known) = 2
  /\ Len(arg.dispatched) = 2
  /\ arg.dispatched[1].run = 1 /\ arg.dispatched[2].run = 2


(* ---------------------------------------------------------------------- *)
(* Specification of one run on a store that earlier runs have left        *)
(* ---------------------------------------------------------------------- *)
ChainHashes == 3      \* listings the providers offer
ChainBatch == 3       \* listings per fetch
SeedBatchLen == 2     \* listings of the earlier run

(* the publishedAt values of scenario B, by listing *)
ScenarioPub == <<100, 300, 200>>

PubOf(h) == IF h \in DOMAIN ScenarioPub THEN ScenarioPub[h] ELSE 100 * h

(* versions of one property, each with its publish date or without one *)
ChainRaws ==
  UNION {{RawListing(h, TRUE, 4, p) : p \in {Null, PubOf(h)}} : h \in 1 .. ChainHashes}

(* what the earlier runs of jobA under P2 held at _findNew: the first     *)
(* listing, an older version no provider offers any more, or both         *)
SeedItems ==
  {GeocodeItem(normalize(RawListing(h, TRUE, 4, PubOf(h))), "coords") : h \in {1, ChainHashes + 1}}

EarlierRun(L, B, t) ==
  RunAlone(L, [job |-> "jobA", provider |-> "P2", pc |-> "findNew", batch |-> B], t)

(* the stores after no earlier run, after one, and after a second at a    *)
(* later time that brought one listing                                    *)
FirstStores == UNION {EarlierRun(<< >>, B, 1) : B \in BatchesOf(SeedItems, SeedBatchLen)}

EarlierStores ==
  FirstStores \cup UNION {EarlierRun(L, <<s>>, 2) : L \in FirstStores \ {<< >>}, s \in SeedItems}

(* and the user may have deleted the first row since *)
ChainStores ==
  EarlierStores \cup {deleteListingsById(L, {1}) : L \in EarlierStores \ {<< >>}}

ChainEnv ==
  [configs |-> {<<"jobA", "P1">>, <<"jobA", "P2">>},
   raws |-> ChainRaws,
   maxBatch |-> ChainBatch,
   keep |-> {TRUE},
   geo |-> {"coords"},
   details |-> {"none"},
   media |-> {"skip"},
   similar |-> {FALSE},
   send |-> {"ok"}]

(* execute() has started the chain of the run *)
InitChain ==
  /\ listings \in ChainStores
  /\ links = {}
  /\ res = NoRes
  /\ nops = 0
  /\ now = 3
  /\ runs = 1
  /\ pc = "fetch"
  /\ \E c \in ChainEnv.configs : job = c[1] /\ provider = c[2]
  /\ batch = << >>
  /\ trace = << >>
  /\ err = NoErr
  /\ handled = 0
  /\ level = "none"
  /\ outcome = "none"
  /\ soft = NoSoft
  /\ found = NoFound
  /\ stored = NoStored
  /\ NoCall

NextChain ==
  \/ _fetchListingsWithKnownHashes(ChainEnv)
  \/ _normalize
  \/ _filter(ChainEnv)
  \/ _findNew
  \/ _geocode(ChainEnv)
  \/ _enrichWithDetails(ChainEnv)
  \/ _downloadMedia(ChainEnv)
  \/ _detectVersions
  \/ _save
  \/ _calculateDistance
  \/ _filterBySimilarListings(ChainEnv)
  \/ _notify(ChainEnv)
  \/ _handleError

SpecChain == InitChain /\ [][NextChain]_vars

(* version detection has returned the batch *)
Detected == pc = "save"

(* the batch positions of the identity f *)
GroupOf(f) == {i \in DOMAIN batch : batch[i].fuzzy = f}

BatchIdentities == {batch[i].fuzzy : i \in DOMAIN batch} \ {Null}

(* the orders of the group G that are descending by publishedAt, unknown as 0 *)
NewestFirstOrders(G) ==
  {g \in [1 .. Cardinality(G) -> G] :
     /\ \A i \in G : \E k \in DOMAIN g : g[k] = i
     /\ \A k \in 1 .. (Len(g) - 1) : batch[g[k]].pub >= batch[g[k + 1]].pub}

(* C24: in a batch group of more than one listing sharing a fuzzy         *)
(* identity, sorted by publishedAt descending (unknown counted as 0),     *)
(* each member's transient marker names the hash of its immediate         *)
(* successor in that order, the oldest member carries no marker, and only *)
(* the oldest member is linked to a pre-existing store match.             *)
C24_BatchGroupChain ==
  Detected =>
     \A f \in BatchIdentities :
        Cardinality(GroupOf(f)) > 1 =>
           \E g \in NewestFirstOrders(GroupOf(f)) :
              /\ \A k \in 1 .. (Len(g) - 1) :
                    /\ batch[g[k]].bprev = batch[g[k + 1]].hash
                    /\ batch[g[k]].prev = Null
              /\ batch[g[Len(g)]].bprev = Null
              /\ batch[g[Len(g)]].prev # Null =>
                    /\ batch[g[Len(g)]].prev \in Ids(listings)
                    /\ listings[batch[g[Len(g)]].prev].fuzzy = f

(* scenario B: the batch [100, 300, 200] is chained 300 -> 200 -> 100 and *)
(* the listing of 100 is linked to the stored listing                     *)
C24_Witness ==
  /\ Detected
  /\ Len(batch) = 3
  /\ listings # << >>
  /\ \A i \in 1 .. 3 : batch[i].pub = ScenarioPub[i] /\ batch[i].fuzzy = batch[1].fuzzy
  /\ batch[2].bprev = batch[3].hash /\ batch[2].prev = Null
  /\ batch[3].bprev = batch[1].hash /\ batch[3].prev = Null
  /\ batch[1].bprev = Null /\ batch[1].prev = 1


(* the row n previousVersionId edges from row i, Null past the end *)
RECURSIVE Older(_, _, _)
Older(L, i, n) ==
  IF n = 0 \/ i = Null \/ i \notin Ids(L) THEN i ELSE Older(L, L[i].prev, n - 1)

NoPrevCycle(L) == \A i \in Ids(L) : \A n \in 1 .. Len(L) : Older(L, i, n) # i

(* the persist step of the run has been done *)
Persisted == stored.ran

(* C25: automatic linking (version detection followed by batch-chain      *)
(* resolution) never produces a cycle of previousVersionId edges, a       *)
(* listing whose previousVersionId is its own id included, for any batch, *)
(* also one in which two fetched listings carry the same hash or a        *)
(* fetched hash is already stored in the job under another provider.      *)
C25_NoCycleFromAutomaticLinking ==
  Persisted /\ NoPrevCycle(stored.before) => NoPrevCycle(listings)

(* the same, for batches of distinct hashes none of which is stored *)
FreshDistinctBatch ==
  /\ \A i, j \in DOMAIN stored.items : stored.items[i].hash = stored.items[j].hash => i = j
  /\ \A i \in DOMAIN stored.items : ~HasHash(stored.before, job, stored.items[i].hash)

NoCycleForFreshDistinct ==
  Persisted /\ NoPrevCycle(stored.before) /\ FreshDistinctBatch => NoPrevCycle(listings)

(* the same, for batches of distinct hashes, stored or not *)
DistinctBatch ==
  \A i, j \in DOMAIN stored.items : stored.items[i].hash = stored.items[j].hash => i = j

NoCycleForDistinct ==
  Persisted /\ NoPrevCycle(stored.before) /\ DistinctBatch => NoPrevCycle(listings)

(* ---------------------------------------------------------------------- *)
(* Removal of an indirect manual link                                     *)
(* ---------------------------------------------------------------------- *)
Linked(K, a, b) == <<a, b>> \in K \/ <<b, a>> \in K

(* scenario E before the call: rows b and c are in one component, no edge *)
(* joins them, and the only neighbour of b is a, by a manual link         *)
OnlyThrough(L, K, a, b, c) ==
  /\ a # b /\ a # c /\ b # c
  /\ Neighbours(L, K, b) = {a}
  /\ Linked(K, a, b)
  /\ c \in AllInChain(L, K, b)

(* the step is removeManualLink(c, b) in scenario E with intermediate a *)
RemovesInScenarioE(a, b, c) ==
  /\ OnlyThrough(listings, links, a, b, c)
  /\ res'.op = "remove"
  /\ res'.l1 = c
  /\ res'.l2 = b
  /\ nops' = nops + 1

(* C26: removing a manual link between B and C that are connected only    *)
(* through an intermediate node A deletes the edge that actually bridges  *)
(* them, and afterwards B is a singleton component with previousVersionId *)
(* = null and isSuperseded = false.                                       *)
C26_IndirectRemoveDetachesB ==
  [][\A a \in Ids(listings), b \in Ids(listings), c \in Ids(listings) :
        RemovesInScenarioE(a, b, c) =>
           /\ ~Linked(links', a, b)
           /\ AllInChain(listings', links', b) = {b}
           /\ listings'[b].prev = Null
           /\ ~listings'[b].sup]_vars

(* the same when a is the older of a and b, so that createManualLink has  *)
(* made a the previous version of b, and the pair is linked once          *)
IndirectRemoveOfNewer ==
  [][\A a \in Ids(listings), b \in Ids(listings), c \in Ids(listings) :
        /\ RemovesInScenarioE(a, b, c)
        /\ listings[b].prev = a
        /\ ~(<<a, b>> \in links /\ <<b, a>> \in links)
        => /\ ~Linked(links', a, b)
           /\ AllInChain(listings', links', b) = {b}
           /\ listings'[b].prev = Null
           /\ ~listings'[b].sup]_vars


(* ---------------------------------------------------------------------- *)
(* The store after the persist step                                       *)
(* ---------------------------------------------------------------------- *)
(* the rows of the job with the identity f *)
IdentityGroup(f) == {i \in RowsOfJob(listings, job) : listings[i].fuzzy = f}

StoredIdentities == {stored.items[i].fuzzy : i \in DOMAIN stored.items} \ {Null}

(* the hashes of the batch members of identity f no member is newer than *)
NewestHashes(f) ==
  {stored.items[i].hash : i \in {k \in DOMAIN stored.items :
      /\ stored.items[k].fuzzy = f
      /\ \A j \in DOMAIN stored.items :
            stored.items[j].fuzzy = f => stored.items[j].pub <= stored.items[k].pub}}

OneHeadPerIdentity ==
  \A f \in StoredIdentities :
     \E h \in IdentityGroup(f) :
        /\ {i \in IdentityGroup(f) : ~listings[i].sup} = {h}
        /\ listings[h].hash \in NewestHashes(f)

(* C27: after the persist step of a run, within each fuzzy-identity group *)
(* of the job exactly one listing is non-superseded, and it is the batch  *)
(* member that is newest by publishedAt (the one not referenced as        *)
(* another member's predecessor).                                         *)
C27_OneNewestHeadPerIdentity == Persisted => OneHeadPerIdentity

(* the same, for batches of distinct hashes none of which is stored *)
OneNewestHeadForFreshDistinct == Persisted /\ FreshDistinctBatch => OneHeadPerIdentity


(* ---------------------------------------------------------------------- *)
(* The link of a batch group to the store                                 *)
(* ---------------------------------------------------------------------- *)
(* the batch as version detection returned it, and the rows it looked at *)
DetectionDone == pc = "save" \/ stored.ran
DetectedBatch == IF pc = "save" THEN batch ELSE stored.items
RowsAtDetection == IF pc = "save" THEN listings ELSE stored.before

(* the rows of the identity f the store held, tombstones aside *)
Existing(f) == FuzzyRows(RowsAtDetection, job, f)

MembersOf(f) == {i \in DOMAIN DetectedBatch : DetectedBatch[i].fuzzy = f}

(* the members of the group no member is older than *)
OldestOf(f) ==
  {o \in MembersOf(f) : \A i \in MembersOf(f) : DetectedBatch[o].pub <= DetectedBatch[i].pub}

(* C28: for each fuzzy-identity group of a batch for which the store      *)
(* already holds listings with that identity, the oldest batch member's   *)
(* previousVersionId is the newest such existing listing, no other batch  *)
(* member points to an existing listing, and that existing listing is     *)
(* superseded once the run completes.                                     *)
C28_OldestLinkedToNewestExisting ==
  DetectionDone =>
     \A f \in {DetectedBatch[i].fuzzy : i \in DOMAIN DetectedBatch} \ {Null} :
        Existing(f) # {} =>
           \E o \in OldestOf(f) :
              /\ DetectedBatch[o].prev \in NewestRows(RowsAtDetection, Existing(f))
              /\ \A i \in MembersOf(f) \ {o} : DetectedBatch[i].prev = Null
              /\ listings[DetectedBatch[o].prev].sup

(* the run has ended; the store held an older and a newer listing of the  *)
(* identity, and of the two fetched listings the older one is linked to   *)
(* the newer of them                                                      *)
C28_Witness ==
  /\ pc = "done"
  /\ stored.ran
  /\ Len(stored.items) = 2
  /\ stored.items[1].pub > stored.items[2].pub
  /\ stored.items[1].prev = Null
  /\ \E e \in Ids(stored.before), x \in Ids(stored.before) :
        /\ {e, x} \subseteq Existing(stored.items[2].fuzzy)
        /\ stored.before[x].created < stored.before[e].created
        /\ stored.items[2].prev = e
        /\ listings[e].sup


(* ---------------------------------------------------------------------- *)
(* Batch-chain resolution                                                 *)
(* ---------------------------------------------------------------------- *)
(* the batch positions that carry a transient marker *)
Markers == {i \in DOMAIN stored.items : stored.items[i].bprev # Null}

(* the rows the two hashes of the marker at position i resolve to, once   *)
(* the batch is inserted                                                  *)
NewerRow(i) == IdOfHash(stored.after, job, stored.items[i].hash)
OlderRow(i) == IdOfHash(stored.after, job, stored.items[i].bprev)

Resolvable(i) == NewerRow(i) # Null /\ OlderRow(i) # Null

MarkersApplied ==
  /\ \A i \in Markers :
        Resolvable(i) =>
           /\ listings[NewerRow(i)].prev = OlderRow(i)
           /\ listings[OlderRow(i)].sup
  /\ \A r \in Ids(listings) :
        (\A i \in Markers : Resolvable(i) => NewerRow(i) # r) =>
           listings[r].prev = stored.after[r].prev
  /\ err.at # "save"

(* C29: after the persist step, a transient batch marker changes the      *)
(* store if and only if both of its hashes resolve to stored rows of the  *)
(* job: then the newer row's previousVersionId is the older row's id and  *)
(* the older row is superseded; otherwise no row is changed and no error  *)
(* is raised.                                                             *)
C29_MarkersResolved == Persisted => MarkersApplied

(* the same, for batches of distinct hashes, stored or not *)
MarkersResolvedForDistinct == Persisted /\ DistinctBatch => MarkersApplied


(* ---------------------------------------------------------------------- *)
(* Price history of automatic links                                       *)
(* ---------------------------------------------------------------------- *)
HasEntry(h, d, p) == \E k \in DOMAIN h : h[k] = [date |-> d, price |-> p]

(* the rows whose previous version the run has set *)
LinkedByRun ==
  {r \in Ids(listings) :
     /\ listings[r].prev # Null
     /\ (r \in Ids(stored.before) => stored.before[r].prev # listings[r].prev)}

HistoryCoversLink(r) ==
  /\ HasEntry(listings[r].hist, listings[listings[r].prev].created,
              listings[listings[r].prev].price)
  /\ HasEntry(listings[r].hist, now, listings[r].price)

(* C30: for every version link created automatically, whether to an       *)
(* existing store listing or between two members of the same batch, the   *)
(* successor's stored priceHistory contains the predecessor's (createdAt, *)
(* price) entry and the successor's own (now, price) entry.               *)
C30_LinkMergesPriceHistory ==
  Persisted => \A r \in LinkedByRun : HistoryCoversLink(r)

(* the same for the links to listings the store held before the run, in   *)
(* batches of distinct hashes none of which is stored                     *)
LinkToExistingMergesPriceHistory ==
  Persisted /\ FreshDistinctBatch =>
     \A r \in LinkedByRun : listings[r].prev \in Ids(stored.before) => HistoryCoversLink(r)


(* ---------------------------------------------------------------------- *)
(* Price history of the head after a manual link                          *)
(* ---------------------------------------------------------------------- *)
(* the members of the component of i the head resolution can return *)
HeadsOf(i) == ChainHeads(listings, Component(i))

(* the priceHistory of row h has the entry of every dated, priced member *)
HistoryCoversComponent(h) ==
  \A m \in Component(h) :
     DateOf(listings[m]) # Null /\ listings[m].price # Null =>
        HasEntry(listings[h].hist, DateOf(listings[m]), listings[m].price)

(* C31: after a successful createManualLink, the stored priceHistory of   *)
(* the head of the combined component contains a (date, price) entry for  *)
(* every member of that component that has a date and a price.            *)
C31_HeadHistoryCoversComponent ==
  (res.op = "create" /\ res.success) =>
     \E h \in HeadsOf(res.l1) : ~listings[h].sup /\ HistoryCoversComponent(h)

(* the same for a first call that inserts its edge into a component of   *)
(* two listings with different dates                                      *)
HeadHistoryCoversFirstPair ==
  (/\ res.op = "create" /\ res.changed /\ nops = 1
   /\ Cardinality(Component(res.l1)) = 2
   /\ \A a \in Component(res.l1), b \in Component(res.l1) :
         DateOf(listings[a]) = DateOf(listings[b]) => a = b)
  => \E h \in HeadsOf(res.l1) : ~listings[h].sup /\ HistoryCoversComponent(h)


(* ---------------------------------------------------------------------- *)
(* Specification of the traversal of findChainHead, one loop pass a step  *)
(* ---------------------------------------------------------------------- *)
TraverseListings == 3 \* rows of the store
TraverseLinks == 1    \* manual links of the store

(* the sequences that list every element of S once *)
Enumerations(S) ==
  {q \in [1 .. Cardinality(S) -> S] : \A x \in S : \E k \in DOMAIN q : q[k] = x}

(* the ids one pass pushes for the row cur, in the order of the three     *)
(* queries; a query without ORDER BY returns its rows in any order        *)
PreviousOf(L, cur) == IF L[cur].prev # Null THEN {L[cur].prev} ELSE {}
NewerOf(L, cur) == {i \in Ids(L) : L[i].prev = cur}
LinksAt(K, cur) == {x \in K : x[1] = cur \/ x[2] = cur}
OtherEnds(q, cur) == [j \in DOMAIN q |-> IF q[j][1] = cur THEN q[j][2] ELSE q[j][1]]

NewerOnly(L, K, cur) ==
  {q1 \o OtherEnds(q2, cur) : q1 \in Enumerations(NewerOf(L, cur)),
                              q2 \in Enumerations(LinksAt(K, cur))}

Pushes(L, K, cur) ==
  {q0 \o q1 \o OtherEnds(q2, cur) : q0 \in Enumerations(PreviousOf(L, cur)),
                                    q1 \in Enumerations(NewerOf(L, cur)),
                                    q2 \in Enumerations(LinksAt(K, cur))}

(* stored graphs: every row points to no row, to itself or to another row *)
TraverseStores ==
  {[i \in 1 .. TraverseListings |-> [Row(i, Null, i) EXCEPT !.prev = p[i]]] :
     p \in [1 .. TraverseListings -> 0 .. TraverseListings]}

TraversePairs == (1 .. TraverseListings) \X (1 .. TraverseListings)

InitTraverse ==
  /\ listings \in TraverseStores
  /\ links \in {K \in SUBSET TraversePairs : Cardinality(K) <= TraverseLinks}
  /\ res = NoRes
  /\ nops = 0
  /\ IdleRun
  /\ \E startingId \in 1 .. TraverseListings :
        arg = [kind |-> "findChainHead", startingId |-> startingId,
               toVisit |-> <<startingId>>, visited |-> {}]
  /\ ret = NoRet

Traversing == arg.kind = "findChainHead" /\ ~ret.called

(* a pass of the loop for an id visited before: continue *)
SkipVisited ==
  /\ Traversing
  /\ arg.toVisit # << >>
  /\ Head(arg.toVisit) \in arg.visited
  /\ arg' = [arg EXCEPT !.toVisit = Tail(@)]
  /\ UNCHANGED <<storeVars, linkVars, runVars, ret>>

(* a pass of the loop for a new id *)
VisitNext ==
  /\ Traversing
  /\ arg.toVisit # << >>
  /\ LET currentId == Head(arg.toVisit)
         visited == arg.visited \cup {currentId}
     IN /\ currentId \notin arg.visited
        /\ \E q \in Pushes(listings, links, currentId) :
              arg' = [arg EXCEPT !.visited = visited,
                                 !.toVisit = Tail(@) \o SelectSeq(q, LAMBDA n : n \notin visited)]
  /\ UNCHANGED <<storeVars, linkVars, runVars, ret>>

(* the loop has ended: the rows with the collected ids are read *)
ReturnChain ==
  /\ Traversing
  /\ arg.toVisit = << >>
  /\ ret' = [called |-> TRUE, allInChain |-> arg.visited \cap Ids(listings)]
  /\ UNCHANGED <<storeVars, linkVars, runVars, arg>>

NextTraverse == SkipVisited \/ VisitNext \/ ReturnChain

SpecTraverse == InitTraverse /\ [][NextTraverse]_vars /\ WF_vars(NextTraverse)

(* the connected component of i: the rows joined to i by a path of        *)
(* previousVersionId edges, taken in either direction, and manual links   *)
Joined(a, b) ==
  \/ listings[a].prev = b
  \/ listings[b].prev = a
  \/ <<a, b>> \in links
  \/ <<b, a>> \in links

RECURSIVE Within(_, _)
Within(S, n) ==
  IF n = 0 THEN S
  ELSE Within(S \cup {b \in Ids(listings) : \E a \in S : Joined(a, b)}, n - 1)

ConnectedComponent(i) == Within({i}, Len(listings))

Returned == ret.called

(* C32: findChainHead terminates for every stored graph, including graphs *)
(* with cycles or a self-referencing previousVersionId, and the set it    *)
(* collects is exactly the connected component of the start listing over  *)
(* previousVersionId edges in both directions and manual-link edges.      *)
C32_TraversalEndsWithComponent ==
  /\ <>Returned
  /\ [](Returned => ret.allInChain = ConnectedComponent(arg.startingId))

(* the traversal has returned all three rows of a store in which one row  *)
(* points to itself and two rows point to each other                      *)
C32_Witness ==
  /\ Returned
  /\ Cardinality(ret.allInChain) = 3
  /\ \E i \in Ids(listings) : listings[i].prev = i
  /\ \E a \in Ids(listings), b \in Ids(listings) :
        a # b /\ listings[a].prev = b /\ listings[b].prev = a


(* ---------------------------------------------------------------------- *)
(* Specification of two runs of different jobs with one provider module   *)
(* ---------------------------------------------------------------------- *)
(* the blacklists of the jobs and the source configurations of their      *)
(* provider entries                                                       *)
BlackLists == {"none", "garage"}
JobConfigs == [blacklist : BlackLists, fullFetch : BOOLEAN]

(* a run before the caller has initialised the provider for it *)
NewRun(c) == [config |-> c, pc |-> "init", fullFetch |-> FALSE, blacklist |-> "unread",
              overlapped |-> FALSE]

InitProvider ==
  /\ listings = << >>
  /\ links = {}
  /\ res = NoRes
  /\ nops = 0
  /\ IdleRun
  /\ \E c1 \in JobConfigs, c2 \in JobConfigs :
        arg = [kind |-> "provider", appliedBlackList |-> "none", fullFetchMode |-> FALSE,
               run |-> <<NewRun(c1), NewRun(c2)>>]
  /\ ret = NoRet

(* the other run is between its init and the end of its filter stage *)
InFlight(run) == run.pc \in {"fetch", "filter"}

(* init(sourceConfig, blacklist) of the provider module, for run r *)
init(r) ==
  /\ arg.kind = "provider"
  /\ arg.run[r].pc = "init"
  /\ arg' = [arg EXCEPT !.appliedBlackList = arg.run[r].config.blacklist,
                        !.fullFetchMode = arg.run[r].config.fullFetch,
                        !.run[r].pc = "fetch",
                        !.run[r].overlapped = InFlight(arg.run[3 - r]),
                        !.run[3 - r].overlapped = @ \/ InFlight(arg.run[3 - r])]
  /\ UNCHANGED <<storeVars, linkVars, runVars, ret>>

(* getListings of run r reads fullFetchMode when the fetch stage calls it *)
getListings(r) ==
  /\ arg.kind = "provider"
  /\ arg.run[r].pc = "fetch"
  /\ arg' = [arg EXCEPT !.run[r].fullFetch = arg.fullFetchMode, !.run[r].pc = "filter"]
  /\ UNCHANGED <<storeVars, linkVars, runVars, ret>>

(* the filter stage of run r calls applyBlacklist, which reads appliedBlackList *)
applyBlacklist(r) ==
  /\ arg.kind = "provider"
  /\ arg.run[r].pc = "filter"
  /\ arg' = [arg EXCEPT !.run[r].blacklist = arg.appliedBlackList, !.run[r].pc = "findNew"]
  /\ UNCHANGED <<storeVars, linkVars, runVars, ret>>

NextProvider ==
  \/ \E r \in {1, 2} : init(r)
  \/ \E r \in {1, 2} : getListings(r)
  \/ \E r \in {1, 2} : applyBlacklist(r)

SpecProvider == InitProvider /\ [][NextProvider]_vars

UsesOwnConfig(run) ==
  /\ run.pc \in {"filter", "findNew"} => run.fullFetch = run.config.fullFetch
  /\ run.pc = "findNew" => run.blacklist = run.config.blacklist

(* C33: when two jobs that use the same provider run concurrently, each   *)
(* run's filter stage applies the blacklist of its own job and each run's *)
(* fetch uses the fetch mode of its own job, whatever the interleaving of *)
(* the runs' initialisation and stages.                                   *)
C33_RunsUseOwnProviderConfig == \A r \in {1, 2} : UsesOwnConfig(arg.run[r])

(* the same for a run no other run overlaps with *)
AloneRunsUseOwnProviderConfig ==
  \A r \in {1, 2} : ~arg.run[r].overlapped => UsesOwnConfig(arg.run[r])

(* ---------------------------------------------------------------------- *)
(* Specification of the two identities as functions of the written address *)
(* ---------------------------------------------------------------------- *)
MaxWritten == 3       \* tokens of a written address

(* An address as written, character classes kept: a sequence of tokens,   *)
(* each with the number of white space characters before it.  "w" is the  *)
(* word "Musterstr.", "12" and "10115" are numbers in digits, "a" is the  *)
(* single letter a, "," is a comma.                                       *)
WrittenTokens == {"w", "12", "10115", "a", ","}

Piece(tok, gap) == [tok |-> tok, gap |-> gap]

IsNumber(tok) == tok \in {"12", "10115"}
DigitsOf(tok) == IF tok = "12" THEN 12 ELSE 10115

(* a comma follows a token with one blank or none, every other token has  *)
(* one or two blanks before it, the first token one or none               *)
IsWritten(a) ==
  /\ a # << >>
  /\ a[1].tok # "," /\ a[1].gap <= 1
  /\ \A i \in DOMAIN a :
       /\ (i > 1 /\ a[i].tok = ",") => (a[i].gap <= 1 /\ a[i - 1].tok # ",")
       /\ (i > 1 /\ a[i].tok # ",") => a[i].gap >= 1

WrittenAddresses ==
  {a \in SeqsUpTo([tok : WrittenTokens, gap : 0 .. 2], MaxWritten) : IsWritten(a)}

(* address.match(/(?:^|[\s,])(?:D-?|DE-?)?(\d{5})(?:[\s,]|$)/): a token   *)
(* has the start, white space or a comma before it and white space, a     *)
(* comma or the end after it, so the match is the first five-digit token  *)
extractZipCodeW(address) ==
  LET M == {i \in DOMAIN address : address[i].tok = "10115"}
  IN IF M = {} THEN Null ELSE DigitsOf(address[CHOOSE i \in M : \A j \in M : i <= j].tok)

(* the null extractHouseNumber returns *)
NoHouseNumber == << >>

(* address.match(/\s(\d+(?:\s?[a-zA-Z])?...)(?:\s|,|$)/): the first       *)
(* number with white space before it, with the single letter that follows *)
(* it after at most one blank; match[1].replace(/\s+/g, '')               *)
extractHouseNumberW(address) ==
  LET M == {i \in DOMAIN address : IsNumber(address[i].tok) /\ address[i].gap >= 1}
  IN IF M = {}
     THEN NoHouseNumber
     ELSE LET i == CHOOSE k \in M : \A j \in M : k <= j
          IN <<DigitsOf(address[i].tok),
               IF i < Len(address) /\ address[i + 1].tok = "a" /\ address[i + 1].gap <= 1
               THEN "a" ELSE "">>

(* toLowerCase and str. to strasse *)
normalizeToken(tok) == IF tok = "w" THEN "musterstrasse" ELSE tok

(* .replace(/\s+/g, ' ') makes every run of white space one blank, then   *)
(* .replace(/[^\w\s]/g, '') takes the commas out and leaves the blanks    *)
(* around them, then .trim(): the words of the result and the blanks      *)
(* before each                                                            *)
RECURSIVE normalizeAddressW(_)
normalizeAddressW(address) ==
  IF address = << >>
  THEN << >>
  ELSE LET n == Len(address)
           front == normalizeAddressW(SubSeq(address, 1, n - 1))
           collapsed(i) == IF address[i].gap >= 1 THEN 1 ELSE 0
       IN IF address[n].tok = ","
          THEN front
          ELSE Append(front,
                      <<normalizeToken(address[n].tok),
                        IF front = << >>
                        THEN 0
                        ELSE collapsed(n) + (IF address[n - 1].tok = ","
                                             THEN collapsed(n - 1) ELSE 0)>>)

(* sha256 of `${normalizedAddress}|${sizeStr}`: equal for two listings    *)
(* iff the normalized address and the size are                            *)
computePropertyIdentityW(listing) ==
  IF listing.address = << >> \/ normalizeAddressW(listing.address) = << >>
  THEN NoPropertyIdentity
  ELSE <<normalizeAddressW(listing.address), listing.size>>

(* the parts array of computeFuzzyIdentity as a set of <<name, value>> *)
FuzzyIdentityPartsW(listing) ==
  (IF hasValidCoordinates(listing.latitude, listing.longitude)
   THEN {<<"geo", 1000 * listing.latitude + listing.longitude>>} ELSE {})
  \cup (IF extractZipCodeW(listing.address) # Null
        THEN {<<"plz", extractZipCodeW(listing.address)>>} ELSE {})
  \cup (IF extractHouseNumberW(listing.address) # NoHouseNumber
        THEN {<<"hn", extractHouseNumberW(listing.address)>>} ELSE {})
  \cup (IF computeSizeBucket(listing.size) # NaN
        THEN {<<"size", computeSizeBucket(listing.size)>>} ELSE {})
  \cup (IF listing.rooms # Null /\ listing.rooms > 0
        THEN {<<"rooms", listing.rooms>>} ELSE {})
  \cup (IF computePriceBucket(listing.price) # NaN
        THEN {<<"price", computePriceBucket(listing.price)>>} ELSE {})

(* parts.sort().join('||') hashed, or null with fewer than four parts *)
computeFuzzyIdentityW(listing) ==
  IF Cardinality(FuzzyIdentityPartsW(listing)) < 4
  THEN NoIdentity
  ELSE FuzzyIdentityPartsW(listing)

TokensOf(a) == [i \in DOMAIN a |-> a[i].tok]
GapsOf(a) == [i \in DOMAIN a |-> a[i].gap]

Bijections(D) == {p \in [D -> D] : \A i, j \in D : i # j => p[i] # p[j]}

(* b has the tokens of a in another order and the white space of a *)
Reordered(a, b) ==
  /\ Len(a) = Len(b)
  /\ TokensOf(a) # TokensOf(b)
  /\ GapsOf(a) = GapsOf(b)
  /\ \E p \in Bijections(DOMAIN a) : \A i \in DOMAIN a : b[i].tok = a[p[i]].tok

(* b has the tokens of a in their order and other white space *)
Respaced(a, b) == TokensOf(a) = TokensOf(b) /\ GapsOf(a) # GapsOf(b)

(* the other written forms of an address *)
Variants(a) ==
  {b \in {[i \in DOMAIN a |-> Piece(a[p[i]].tok, g[i])] :
            p \in Bijections(DOMAIN a), g \in [DOMAIN a -> 0 .. 2]} :
     IsWritten(b) /\ (Reordered(a, b) \/ Respaced(a, b))}

WrittenListing(a) ==
  [kind |-> "listing", latitude |-> 52, longitude |-> 13, address |-> a,
   size |-> 70, rooms |-> 3, price |-> Null]

InitWritten ==
  /\ listings = << >>
  /\ links = {}
  /\ res = NoRes
  /\ nops = 0
  /\ IdleRun
  /\ \E a \in WrittenAddresses :
       \E b \in Variants(a) :
         arg = [kind |-> "written", first |-> WrittenListing(a),
                 second |-> WrittenListing(b)]
  /\ ret = NoRet

CallIdentities ==
  /\ ~ret.called
  /\ ret' = [called |-> TRUE,
             strict |-> <<computePropertyIdentityW(arg.first),
                          computePropertyIdentityW(arg.second)>>,
             fuzzy |-> <<computeFuzzyIdentityW(arg.first),
                         computeFuzzyIdentityW(arg.second)>>]
  /\ UNCHANGED <<storeVars, linkVars, runVars, arg>>

NextWritten == CallIdentities

SpecWritten == InitWritten /\ [][NextWritten]_vars

SameIdentities == ret.strict[1] = ret.strict[2] /\ ret.fuzzy[1] = ret.fuzzy[2]

(* C34: the strict identity and the fuzzy identity of a listing are the   *)
(* same for two written forms of its address that differ in the order of  *)
(* the tokens or in the amount of white space.                            *)
C34_IdentitiesIgnoreOrderAndSpace == ret.called => SameIdentities

(* the two identities are the same for two written forms that differ in   *)
(* the white space between tokens, when no comma stands apart from the    *)
(* word before it and no letter follows a number                          *)
InnerSpace(a, b) ==
  /\ Respaced(a, b)
  /\ a[1].gap = b[1].gap
  /\ \A i \in DOMAIN a :
       /\ a[i].tok = "," => (a[i].gap = 0 /\ b[i].gap = 0)
       /\ (i > 1 /\ a[i].tok = "a") => ~IsNumber(a[i - 1].tok)

IdentitiesIgnoreInnerSpace ==
  (ret.called /\ InnerSpace(arg.first.address, arg.second.address)) => SameIdentities

InnerSpaceCalled ==
  ret.called /\ InnerSpace(arg.first.address, arg.second.address)

(* ---------------------------------------------------------------------- *)
(* Specification of the confidence of computeSimilarity                   *)
(* ---------------------------------------------------------------------- *)
ConfidenceThresholds == [high |-> 80, medium |-> 60, low |-> 40]

(* the factors object of computeSimilarity: of each factor result its     *)
(* points and available, of the address factor the score of               *)
(* compareAddresses, of the geo factor the distance (NaN stands for the   *)
(* field a result does not have or has as null)                           *)
similarityFactors(listing1, listing2) ==
  [address |->
     [points |-> calculateAddressScore(listing1, listing2),
      available |-> listing1.address.text /\ listing2.address.text,
      score |-> IF listing1.address.text /\ listing2.address.text
                THEN compareAddresses(listing1.address, listing2.address) ELSE NaN],
   size |->
     [points |-> calculateSizeScore(listing1, listing2),
      available |-> parseNumber(listing1.size) # Nul /\ parseNumber(listing2.size) # Nul],
   geo |->
     [points |-> calculateGeoScore(listing1.latitude, listing2.latitude),
      available |-> isValidCoordinate(listing1.latitude) /\ isValidCoordinate(listing2.latitude),
      distance |-> IF isValidCoordinate(listing1.latitude) /\ isValidCoordinate(listing2.latitude)
                   THEN Abs(listing1.latitude.v - listing2.latitude.v) ELSE NaN],
   rooms |->
     [points |-> calculateRoomScore(listing1, listing2),
      available |-> parseNumber(listing1.rooms) # Nul /\ parseNumber(listing2.rooms) # Nul],
   price |->
     [points |-> calculatePriceScore(listing1, listing2),
      available |-> parseNumber(listing1.price) # Nul /\ parseNumber(listing2.price) # Nul]]

(* Object.values(factors).filter((f) => f.available !== false).length *)
AvailableFactors(factors) == Cardinality({k \in DOMAIN factors : factors[k].available})

(* calculateConfidence without the test of the number of factors *)
ConfidenceOfScoreAlone(totalScore, factors) ==
  LET hasStrongGeo == factors.geo.available /\ factors.geo.distance <= 50
      hasStrongAddress == factors.address.available /\ factors.address.score >= 80
  IN IF hasStrongGeo /\ hasStrongAddress /\ totalScore >= ConfidenceThresholds.medium
     THEN "high"
     ELSE IF totalScore >= ConfidenceThresholds.high THEN "high"
          ELSE IF totalScore >= ConfidenceThresholds.medium THEN "medium"
          ELSE IF totalScore >= ConfidenceThresholds.low THEN "low"
          ELSE "none"

calculateConfidence(totalScore, factors) ==
  IF AvailableFactors(factors) < 3
  THEN IF totalScore >= ConfidenceThresholds.medium THEN "medium" ELSE "low"
  ELSE LET hasStrongGeo == factors.geo.available /\ factors.geo.distance <= 50
           hasStrongAddress == factors.address.available /\ factors.address.score >= 80
       IN IF hasStrongGeo /\ hasStrongAddress /\ totalScore >= ConfidenceThresholds.medium
          THEN "high"
          ELSE IF totalScore >= ConfidenceThresholds.high THEN "high"
               ELSE IF totalScore >= ConfidenceThresholds.medium THEN "medium"
               ELSE IF totalScore >= ConfidenceThresholds.low THEN "low"
               ELSE "none"

(* score, confidence and factors of the result of computeSimilarity *)
computeSimilarityResult(listing1, listing2) ==
  LET factors == similarityFactors(listing1, listing2)
      totalScore == factors.address.points + factors.size.points + factors.geo.points
                    + factors.rooms.points + factors.price.points
  IN [score |-> totalScore,
      confidence |-> calculateConfidence(totalScore, factors),
      factors |-> factors]

CallComputeSimilarityResult ==
  /\ ~ret.called
  /\ ret' = [called |-> TRUE, result |-> computeSimilarityResult(arg.a, arg.b)]
  /\ UNCHANGED <<storeVars, linkVars, runVars, arg>>

NextConfidence == CallComputeSimilarityResult

SpecConfidence == InitSimilarity /\ [][NextConfidence]_vars

(* the listings of the pair give n of the five kinds of data *)
BothGive(a, b, n) ==
  Cardinality({k \in {"address", "size", "geo", "rooms", "price"} :
                 CASE k = "address" -> a.address.text /\ b.address.text
                   [] k = "size" -> parseNumber(a.size) # Nul /\ parseNumber(b.size) # Nul
                   [] k = "geo" -> isValidCoordinate(a.latitude) /\ isValidCoordinate(b.latitude)
                   [] k = "rooms" -> parseNumber(a.rooms) # Nul /\ parseNumber(b.rooms) # Nul
                   [] k = "price" -> parseNumber(a.price) # Nul /\ parseNumber(b.price) # Nul}) = n

FewFactors == BothGive(arg.a, arg.b, 0) \/ BothGive(arg.a, arg.b, 1) \/ BothGive(arg.a, arg.b, 2)

(* geo distance <= 50 m and address score >= 80 *)
StrongGeoAndAddress ==
  /\ ret.result.factors.geo.available /\ ret.result.factors.geo.distance <= 50
  /\ ret.result.factors.address.available /\ ret.result.factors.address.score >= 80

(* C35: the confidence of a similarity result is never 'high' when fewer  *)
(* than 3 factors are available; with at least 3 factors it is 'high'     *)
(* when score >= 80, or when score >= 60 together with geo distance       *)
(* <= 50 m and address score >= 80, otherwise 'medium' when score >= 60,  *)
(* 'low' when score >= 40, and 'none' below 40.                           *)
C35_Confidence ==
  ret.called =>
     /\ FewFactors => ret.result.confidence # "high"
     /\ ~FewFactors =>
          /\ (ret.result.score >= 80 \/ (ret.result.score >= 60 /\ StrongGeoAndAddress))
               <=> ret.result.confidence = "high"
          /\ (ret.result.score >= 60) <=> ret.result.confidence \in {"high", "medium"}
          /\ (ret.result.score >= 40) <=> ret.result.confidence \in {"high", "medium", "low"}
          /\ (ret.result.score < 40) <=> ret.result.confidence = "none"

(* a pair of two factors with a strong geo and address match at score 60  *)
(* that is not 'high'                                                     *)
C35_Witness ==
  /\ ret.called /\ FewFactors /\ StrongGeoAndAddress
  /\ ret.result.score = 60 /\ ret.result.confidence = "medium"

(* pairs of at least three factors in every confidence, 'high' by score   *)
(* and 'high' by the strong match                                         *)
HighByScore == ret.called /\ ~FewFactors /\ ret.result.score >= 80 /\ ~StrongGeoAndAddress
HighByStrongMatch == ret.called /\ ~FewFactors /\ ret.result.score < 80 /\ ret.result.confidence = "high"
MediumReached == ret.called /\ ~FewFactors /\ ret.result.confidence = "medium"
LowReached == ret.called /\ ~FewFactors /\ ret.result.confidence = "low"
NoneReached == ret.called /\ ~FewFactors /\ ret.result.confidence = "none"

(* ---------------------------------------------------------------------- *)
(* Specification of the dispatches of the runs of one job under two       *)
(* providers                                                              *)
(* in a failing environment, over restarts of the process                 *)
(* ---------------------------------------------------------------------- *)
DispatchRuns == 3     \* runs per behaviour
DispatchHashes == 2   \* listings the provider offers
DispatchBatch == 2    \* listings per fetch

DispatchEnv ==
  [runs |-> DispatchRuns,
   configs |-> {<<"jobA", "P1">>, <<"jobA", "P2">>},
   raws |-> {RawListing(h, TRUE, 4, Null) : h \in 1 .. DispatchHashes},
   maxBatch |-> DispatchBatch,
   url |-> {"ok", "throw"},
   keep |-> BOOLEAN,
   geo |-> {"coords"},
   details |-> {"none"},
   media |-> {"skip"},
   similar |-> {FALSE},
   send |-> {"ok", "reject"},
   tick |-> {1}]

(* the process is restarted between two runs: the similarity cache is in  *)
(* memory and starts empty, the store is kept                             *)
RestartProcess ==
  /\ pc \in {"done", "threw"}
  /\ arg.keys # {}
  /\ arg' = [arg EXCEPT !.keys = {}]
  /\ UNCHANGED <<storeVars, linkVars, runVars, ret>>

NextDispatch ==
  \/ Execute(DispatchEnv)
  \/ _fetchListingsWithKnownHashes(DispatchEnv)
  \/ _normalize
  \/ _filter(DispatchEnv)
  \/ _findNew
  \/ _geocode(DispatchEnv)
  \/ _enrichWithDetails(DispatchEnv)
  \/ _downloadMedia(DispatchEnv)
  \/ _detectVersions
  \/ _save
  \/ _calculateDistance
  \/ _filterBySimilarListingsOfSession
  \/ _notifyOfSession(DispatchEnv)
  \/ _handleError
  \/ StageThrows
  \/ RestartProcess

SpecDispatch == InitCache /\ [][NextDispatch]_vars

DispatchedTwiceOnlyIfStoredByOther ==
  \A k, j \in DOMAIN arg.dispatched :
     (/\ arg.dispatched[k].provider = arg.dispatched[j].provider
      /\ arg.dispatched[k].hash = arg.dispatched[j].hash
      /\ k # j)
     => \E i \in Ids(listings) :
           /\ listings[i].job = "jobA" /\ listings[i].hash = arg.dispatched[k].hash
           /\ listings[i].provider # arg.dispatched[k].provider

(* a run was handed the same hash twice by its provider and dispatched it *)
DuplicateFetchedAndDispatched ==
  /\ pc = "done" /\ outcome = "notified"
  /\ Len(stored.items) = 2 /\ stored.items[1].hash = stored.items[2].hash

(* ---------------------------------------------------------------------- *)
(* Specification of what becomes of the listings the runs of one job and  *)
(* provider persist, every run being taken to its end                     *)
(* ---------------------------------------------------------------------- *)
SettleRuns == 3       \* runs per behaviour
SettleHashes == 2     \* listings the provider offers
SettleBatch == 2      \* listings per fetch

SettleEnv ==
  [runs |-> SettleRuns,
   configs |-> {<<"jobA", "P1">>},
   raws |-> {RawListing(h, TRUE, 4, Null) : h \in 1 .. SettleHashes},
   maxBatch |-> SettleBatch,
   url |-> {"ok"},
   keep |-> {TRUE},
   geo |-> {"coords"},
   details |-> {"none"},
   media |-> {"skip"},
   similar |-> {FALSE},
   send |-> {"ok", "reject"},
   tick |-> {1}]

NextSettle ==
  \/ Execute(SettleEnv)
  \/ _fetchListingsWithKnownHashes(SettleEnv)
  \/ _normalize
  \/ _filter(SettleEnv)
  \/ _findNew
  \/ _geocode(SettleEnv)
  \/ _enrichWithDetails(SettleEnv)
  \/ _downloadMedia(SettleEnv)
  \/ _detectVersions
  \/ _save
  \/ _calculateDistance
  \/ _filterBySimilarListingsOfSession
  \/ _notifyOfSession(SettleEnv)
  \/ _handleError
  \/ StageThrows

(* the scheduler starts every run of the job and the event loop runs      *)
(* every handler of a chain                                               *)
SpecSettle == InitCache /\ [][NextSettle]_vars /\ WF_vars(NextSettle)

SettleHashSet == {HashOf(h) : h \in 1 .. SettleHashes}

(* the store holds a row of the hash for the job and provider *)
PersistedHash(h) ==
  \E i \in Ids(listings) :
     listings[i].job = "jobA" /\ listings[i].provider = "P1" /\ listings[i].hash = h

(* notify.send was given the hash *)
DispatchedHash(h) == \E k \in DOMAIN arg.dispatched : arg.dispatched[k].hash = h

(* the similarity filter of the run has returned *)
FilterReturned ==
  /\ pc \in {"notify", "done", "rejected"}
  /\ Len(trace) >= IndexOf("similarity")
  /\ err.at # "similarity"

(* the similarity filter of the run dropped an entry of the hash *)
DroppedHash(h) ==
  /\ FilterReturned
  /\ \E k \in DOMAIN stored.items : stored.items[k].hash = h
  /\ \/ <<runs, h>> \notin arg.passed
     \/ Cardinality({k \in DOMAIN stored.items : stored.items[k].hash = h}) > 1

DispatchedOnlyWhenNew ==
  \A k \in DOMAIN arg.dispatched :
     arg.dispatched[k].run = runs => arg.dispatched[k].hash \notin found.known

(* at the end of a run in which no stage after _save failed, every        *)
(* listing the run persisted was dispatched or dropped                    *)
SettledUnlessFailedAfterSave ==
  (pc = "done" /\ stored.ran /\ err.at \notin {"distance", "similarity"}) =>
     \A k \in DOMAIN stored.items :
        DispatchedHash(stored.items[k].hash) \/ DroppedHash(stored.items[k].hash)

(* a run persisted a listing and failed when the distance was calculated  *)
FailedAfterSave == pc = "done" /\ stored.ran /\ err.at = "distance" /\ outcome = "failed"

(* ---------------------------------------------------------------------- *)
(* Specification of one run that can fail, on a store an earlier run has  *)
(* left                                                                   *)
(* ---------------------------------------------------------------------- *)
AbortHashes == 2      \* listings the provider offers
AbortBatch == 2       \* listings per fetch

AbortEnv ==
  [configs |-> {<<"jobA", "P2">>},
   raws |-> {RawListing(h, TRUE, 4, Null) : h \in 1 .. AbortHashes},
   maxBatch |-> AbortBatch,
   keep |-> {TRUE},
   geo |-> {"coords"},
   details |-> {"none"},
   media |-> {"skip"},
   similar |-> {FALSE},
   send |-> {"ok"}]

(* execute() has started the chain of the run; initial: the store then *)
InitAbort ==
  /\ listings \in FirstStores
  /\ links = {}
  /\ res = NoRes
  /\ nops = 0
  /\ now = 3
  /\ runs = 1
  /\ pc = "fetch"
  /\ job = "jobA"
  /\ provider = "P2"
  /\ batch = << >>
  /\ trace = << >>
  /\ err = NoErr
  /\ handled = 0
  /\ level = "none"
  /\ outcome = "none"
  /\ soft = NoSoft
  /\ found = NoFound
  /\ stored = NoStored
  /\ arg = [kind |-> "run", initial |-> listings]
  /\ ret = NoRet

NextAbort ==
  \/ _fetchListingsWithKnownHashes(AbortEnv)
  \/ _normalize
  \/ _filter(AbortEnv)
  \/ _findNew
  \/ _geocode(AbortEnv)
  \/ _enrichWithDetails(AbortEnv)
  \/ _downloadMedia(AbortEnv)
  \/ _detectVersions
  \/ _save
  \/ _calculateDistance
  \/ _filterBySimilarListings(AbortEnv)
  \/ _notify(AbortEnv)
  \/ _handleError
  \/ StageThrows

SpecAbort == InitAbort /\ [][NextAbort]_vars

(* the run has ended in the failure state without _save having stored *)
FailedBeforePersist == pc = "done" /\ outcome = "failed" /\ ~stored.ran

FailedBeforeSaveKeepsStore ==
  (FailedBeforePersist /\ err.at # "save") => listings = arg.initial

(* a run that fails when _save is called leaves everything but the        *)
(* isSuperseded flags as it was                                           *)
FailedAtSaveKeepsOtherFields ==
  (FailedBeforePersist /\ err.at = "save") =>
     /\ Ids(listings) = Ids(arg.initial)
     /\ \A i \in Ids(listings) : [listings[i] EXCEPT !.sup = FALSE] = [arg.initial[i] EXCEPT !.sup = FALSE]

(* ---------------------------------------------------------------------- *)
(* Self links (specification SpecLinks)                                   *)
(* ---------------------------------------------------------------------- *)
(* the manual edges from a row to itself and the rows that are their own  *)
(* previous version                                                       *)
SelfEdges(K) == {k \in K : k[1] = k[2]}
SelfPrevious(L) == {i \in Ids(L) : L[i].prev = i}

(* C39: createManualLink never stores a manual edge or a                  *)
(* previousVersionId that links a listing to itself, whichever mix of     *)
(* database id and hash is used to name the two arguments.                *)
C39_NoSelfLink ==
  [][res'.op = "create" =>
        /\ SelfEdges(links') \subseteq SelfEdges(links)
        /\ SelfPrevious(listings') \subseteq SelfPrevious(listings)]_vars

(* createManualLink stores no self link when its arguments name two rows *)
NoSelfLinkForTwoRows ==
  [][(res'.op = "create" /\ res'.l1 # res'.l2) =>
        /\ SelfEdges(links') \subseteq SelfEdges(links)
        /\ SelfPrevious(listings') \subseteq SelfPrevious(listings)]_vars

(* no operation on manual links stores a self link when every call of    *)
(* createManualLink names two rows                                        *)
SelfLinkOnlyFromOneRow ==
  [][(res'.op = "create" => res'.l1 # res'.l2) =>
        /\ SelfEdges(links') \subseteq SelfEdges(links)
        /\ SelfPrevious(listings') \subseteq SelfPrevious(listings)]_vars

(* ---------------------------------------------------------------------- *)
(* Specification of runs of one job and provider that fetch one listing   *)
(* at a time while the user deletes listings                              *)
(* ---------------------------------------------------------------------- *)
TombRuns == 2         \* runs per behaviour
TombHashes == 2       \* listings the provider offers
TombBatch == 1        \* listings per fetch

TombEnv ==
  [runs |-> TombRuns,
   configs |-> {<<"jobA", "P1">>},
   raws |-> {RawListing(h, TRUE, n, Null) : h \in 1 .. TombHashes, n \in {2, 4}},
   maxBatch |-> TombBatch,
   url |-> {"ok"},
   keep |-> {TRUE},
   geo |-> {"coords"},
   details |-> {"none"},
   media |-> {"skip"},
   similar |-> {FALSE},
   send |-> {"ok"},
   tick |-> {1}]

NextTombstone == Run(TombEnv) \/ DeleteListings

SpecTombstone == InitRuns /\ [][NextTombstone]_vars

(* the store holds for the job and provider of the run a tombstoned row   *)
(* of the hash that an earlier run stored                                 *)
TombstonedEarlier(h) ==
  \E i \in Ids(listings) :
     /\ listings[i].job = job /\ listings[i].provider = provider /\ listings[i].hash = h
     /\ listings[i].deleted /\ listings[i].created < now

(* C40: once a listing has been manually deleted (tombstoned), a later    *)
(* run of the same (job, provider) that fetches the same hash neither     *)
(* persists a new row for it nor notifies it: what _save and _notify are  *)
(* given holds no such hash, and the store holds no second row of it.     *)
C40_TombstoneStaysKnown ==
  /\ pc \in {"save", "notify"} =>
        \A k \in DOMAIN batch : ~TombstonedEarlier(batch[k].hash)
  /\ \A i, j \in Ids(listings) :
        (/\ listings[i].deleted
         /\ listings[i].job = listings[j].job
         /\ listings[i].hash = listings[j].hash) => i = j

(* a later run has fetched the hash of a tombstoned listing and has ended *)
(* without new listings                                                   *)
C40_Witness ==
  /\ runs = 2 /\ pc = "done" /\ outcome = "noNew"
  /\ \E h \in found.hashes : TombstonedEarlier(h)

(* a later run has fetched the hash of a tombstoned listing together with *)
(* a new listing and has notified                                         *)
TombstonedFetchedWithNew ==
  /\ runs = 2 /\ pc = "done" /\ outcome = "notified"
  /\ \E h \in found.hashes : TombstonedEarlier(h)

=============================================================================
